---- MODULE Spec2Model ----
(***************************************************************************)
(* A model of the simple-layout crate: the size range model, the linear    *)
(* distribution engine (horizontal_layout / vertical_layout), the          *)
(* alignment wrapper and the border wrapper.                               *)
(*                                                                         *)
(* Machine words are modelled WordBits wide instead of 32 bits wide, so    *)
(* that u32::MAX (the "unbounded" maximum that expand() reports) and the   *)
(* saturating arithmetic of std::num::Saturating are values TLC can reach. *)
(***************************************************************************)
EXTENDS Integers, Sequences, FiniteSets, TLC

VARIABLES
    orientation,              \* O: "Horizontal" or "Vertical"
    layout,                   \* LL: the SingleLinearLayout / ChainingLinearLayout chain
    appended,                 \* history: the (element, weight) pairs in the order they were given
    pc,                       \* position of the call into the linear layout
    position,                 \* draw_placed's argument
    result_sizes,             \* the slice the match in draw_placed yields
    remaining_budget,
    remaining_budget_before,
    entries_with_headroom,    \* slot indices that passed the filter, in slot order
    remaining_weights,
    k,                        \* position of the for loop in entries_with_headroom
    places,
    drawn,                    \* rectangles handed to the children, in draw order
    size_result,              \* what size() returned
    draw_result,              \* what draw_placed returned
    child_results,            \* what the draw of each slot returns when it is called
    al_layout,                \* AlignLayout: the child with HA and VA
    al_pc,
    al_position,
    al_placed,                \* the rectangle AlignLayout::place computed
    bd_layout,                \* Bordered: the child with its decorator
    bd_pc,
    bd_size,                  \* what Bordered::size returned
    bd_position,              \* Bordered::draw_placed's argument
    bd_inner,                 \* inner_position
    bd_drawn,                 \* the draws made by Bordered::draw_placed, in order
    bd_result,                \* what Bordered::draw_placed returned
    dc_decorator,             \* Decorator: a DashedLine or a RoundedLine
    dc_pc,
    dc_position,              \* Decorator::draw_placed's argument
    dc_walk,                  \* the pixels of the iterator chain, in order
    dc_steps,                 \* the (index, pixel) pairs handed on to draw_iter, in order
    pd_layout,                \* Padding: the child with top, right, bottom, left
    pd_pc,
    pd_position,              \* Padding::draw_placed's argument
    pd_drawn,                 \* the draws of the child: rectangle and result, in order
    pd_result,                \* what Padding::draw_placed returned
    pl_threads,               \* CallbackPlacement: the draws of one node, one per thread
    pl_lock,                  \* the thread that holds the lock of callback, or Unlocked
    pl_poisoned,              \* a callback panicked while the lock was held
    pl_target,                \* optional_placement's target
    fn_call,                  \* a function called on its own: its name and arguments
    fn_result                 \* what that call returned

linVars == <<orientation, layout, appended, pc, position, result_sizes,
             remaining_budget, remaining_budget_before, entries_with_headroom,
             remaining_weights, k, places, drawn, size_result, draw_result,
                   child_results>>
alignVars == <<al_layout, al_pc, al_position, al_placed>>
borderVars == <<bd_layout, bd_pc, bd_size, bd_position, bd_inner, bd_drawn, bd_result>>
decoratorVars == <<dc_decorator, dc_pc, dc_position, dc_walk, dc_steps>>
paddingVars == <<pd_layout, pd_pc, pd_position, pd_drawn, pd_result>>
placementVars == <<pl_threads, pl_lock, pl_poisoned, pl_target>>
callVars == <<fn_call, fn_result>>
restVars == <<decoratorVars, paddingVars, placementVars, callVars>>
vars == <<linVars, alignVars, borderVars, restVars>>

----------------------------------------------------------------------------
(* Bounds of the model *)

WordBits == 8
MaxSlots == 2
MaxWeight == 2
MaxTarget == 8
MaxAvailable == 11
MaxDots == 2
MaxGaps == 2
MaxBorderExtent == 5
MaxDecoratorExtent == 7
MaxPad == 2
MaxPadExtent == 4
MaxThreads == 2
MaxPlacementExtent == 1
MaxCallSlots == 3
MaxCallWeight == 2
MaxCallTarget == 8
MaxWraps == 2

----------------------------------------------------------------------------
(* Machine arithmetic *)

U32_MAX == 2^WordBits - 1
I32_MAX == 2^(WordBits - 1) - 1
I32_MIN == -(2^(WordBits - 1))

Min(a, b) == IF a < b THEN a ELSE b
Max(a, b) == IF a > b THEN a ELSE b

\* Saturating<u32>
SatAddU32(a, b) == Min(a + b, U32_MAX)
SatSubU32(a, b) == Max(a - b, 0)
SatMulU32(a, b) == Min(a * b, U32_MAX)
SatDivU32(a, b) == a \div b

\* Saturating<i32>
ClampI32(v) == Max(I32_MIN, Min(v, I32_MAX))
SatAddI32(a, b) == ClampI32(a + b)
SatSubI32(a, b) == ClampI32(a - b)
\* integer division of Rust: the quotient is truncated toward zero
TruncDiv(a, b) == IF (a >= 0) = (b > 0) THEN a \div b ELSE -((-a) \div b)
SatDivI32(a, b) == ClampI32(TruncDiv(a, b))

\* `u as i32`: the bit pattern is kept
AsI32(u) == IF u > I32_MAX THEN u - 2^WordBits ELSE u

----------------------------------------------------------------------------
(* Size range model *)

ValueRange(preferred, min, max) ==
    [preferred_value |-> preferred, min_value |-> min, max_value |-> max]

ValueRange_default == ValueRange(0, 0, 0)

ValueRange_fixed(value) == ValueRange(value, value, value)

ValueRange_expand_max(self) ==
    ValueRange(self.preferred_value, self.min_value, U32_MAX)

\* faulty variant: the other range replaces the accumulated one
ValueRange_expand_last(self, rhs) == rhs


ValueRange_expand(self, rhs) ==
    [preferred_value |-> IF self.preferred_value < rhs.preferred_value
                         THEN rhs.preferred_value ELSE self.preferred_value,
     min_value |-> IF self.min_value < rhs.min_value
                   THEN rhs.min_value ELSE self.min_value,
     max_value |-> IF self.max_value < rhs.max_value
                   THEN rhs.max_value ELSE self.max_value]

ValueRange_add_assign(self, rhs) ==
    [preferred_value |-> SatAddU32(self.preferred_value, rhs.preferred_value),
     min_value |-> SatAddU32(self.min_value, rhs.min_value),
     max_value |-> SatAddU32(self.max_value, rhs.max_value)]

ComponentSize(w, h) == [width |-> w, height |-> h]

ComponentSize_default == ComponentSize(ValueRange_default, ValueRange_default)

Point(px, py) == [x |-> px, y |-> py]
Size(w, h) == [width |-> w, height |-> h]
Rectangle(p, s) == [top_left |-> p, size |-> s]

----------------------------------------------------------------------------
(* Orientation *)

split_component_size(O, size) ==
    IF O = "Horizontal" THEN <<size.width, size.height>>
                        ELSE <<size.height, size.width>>

split_size(O, size) ==
    IF O = "Horizontal" THEN <<size.width, size.height>>
                        ELSE <<size.height, size.width>>

\* faulty variant: the vertical orientation splits its points like the horizontal one
split_point_horizontal(O, p) == <<p.x, p.y>>

split_point(O, p) ==
    IF O = "Horizontal" THEN <<p.x, p.y>> ELSE <<p.y, p.x>>

create_component_size(O, along, cross) ==
    IF O = "Horizontal" THEN ComponentSize(along, cross)
                        ELSE ComponentSize(cross, along)

create_size(O, along, across) ==
    IF O = "Horizontal" THEN Size(along, across) ELSE Size(across, along)

\* faulty variant: the vertical orientation builds its points like the horizontal one
create_point_horizontal(O, along, cross) == Point(along, cross)


create_point(O, along, cross) ==
    IF O = "Horizontal" THEN Point(along, cross) ELSE Point(cross, along)

----------------------------------------------------------------------------
(* The elements a layout is built from: leaves that report a size *)

Flex == ValueRange(2, 1, 3)
Shrk == ValueRange(3, 0, 3)
Grow == ValueRange_expand_max(ValueRange(3, 2, 3))

\* an element is known to its container by what its size() reports
Element(size) == [size |-> size]
Layoutable_size(l) == l.size

\* the absent optional element
None == Element(ComponentSize_default)

Elements ==
    {None,
     Element(ComponentSize(Flex, Shrk)),
     Element(ComponentSize(Shrk, Flex)),
     Element(ComponentSize(Grow, Grow))}

Weights == 0..MaxWeight

----------------------------------------------------------------------------
(* LinearLayout: SingleLinearLayout and ChainingLinearLayout *)

SingleLinearLayout(l, w) == [kind |-> "Single", layout |-> l, weight |-> w]

ChainingLinearLayout(base, l, w) ==
    [kind |-> "Chaining", base_layout |-> base, layoutable |-> l, weight |-> w]

RECURSIVE len(_)
len(LL) == IF LL.kind = "Single" THEN 1 ELSE len(LL.base_layout) + 1

\* sizes[0..idx] is filled by the base layout, sizes[idx] by this link
RECURSIVE fill_sizes(_)
fill_sizes(LL) ==
    IF LL.kind = "Single"
    THEN <<Layoutable_size(LL.layout)>>
    ELSE fill_sizes(LL.base_layout) \o <<Layoutable_size(LL.layoutable)>>

\* faulty variant: the weights are filled in from the last link to the first
RECURSIVE fill_weights_reversed(_)
fill_weights_reversed(LL) ==
    IF LL.kind = "Single"
    THEN <<LL.weight>>
    ELSE <<LL.weight>> \o fill_weights_reversed(LL.base_layout)

RECURSIVE fill_weights(_)
fill_weights(LL) ==
    IF LL.kind = "Single"
    THEN <<LL.weight>>
    ELSE fill_weights(LL.base_layout) \o <<LL.weight>>

\* the result of a draw: Ok(()) or Err(e), e an error of the draw target
Ok == [ok |-> TRUE]
Err(e) == [ok |-> FALSE, error |-> e]
DrawErrors == {"e1", "e2"}
DrawOutcomes == {Ok} \cup {Err(e) : e \in DrawErrors}

\* draw_placed_components without the ? after the draw of the base layout
RECURSIVE draw_placed_components_unchecked(_, _, _)
draw_placed_components_unchecked(LL, pl, outcomes) ==
    IF LL.kind = "Single"
    THEN [drawn |-> <<pl[1]>>, result |-> outcomes[1]]
    ELSE LET idx == len(LL) - 1
             base == draw_placed_components_unchecked(LL.base_layout,
                                                      SubSeq(pl, 1, idx),
                                                      SubSeq(outcomes, 1, idx))
         IN  [drawn |-> base.drawn \o <<pl[idx + 1]>>,
              result |-> outcomes[idx + 1]]

\* draw_placed_components that keeps the result of the base layout
RECURSIVE draw_placed_components_first(_, _, _)
draw_placed_components_first(LL, pl, outcomes) ==
    IF LL.kind = "Single"
    THEN [drawn |-> <<pl[1]>>, result |-> outcomes[1]]
    ELSE LET idx == len(LL) - 1
             base == draw_placed_components_first(LL.base_layout,
                                                  SubSeq(pl, 1, idx),
                                                  SubSeq(outcomes, 1, idx))
         IN  IF base.result.ok
             THEN [drawn |-> base.drawn \o <<pl[idx + 1]>>, result |-> base.result]
             ELSE base

\* the rectangles handed to the children, in the order their draw_placed is
\* called, and the result; outcomes[i] is what the draw of slot i returns
\* when it is called
RECURSIVE draw_placed_components(_, _, _)
draw_placed_components(LL, pl, outcomes) ==
    IF LL.kind = "Single"
    THEN [drawn |-> <<pl[1]>>, result |-> outcomes[1]]
    ELSE LET idx == len(LL) - 1
             base == draw_placed_components(LL.base_layout, SubSeq(pl, 1, idx),
                                            SubSeq(outcomes, 1, idx))
         IN  IF base.result.ok
             THEN [drawn |-> base.drawn \o <<pl[idx + 1]>>,
                   result |-> outcomes[idx + 1]]
             ELSE base

----------------------------------------------------------------------------
(* LayoutableLinearLayout::size *)

RECURSIVE SizeFold(_, _, _, _, _)
SizeFold(O, sizes, i, total_along, total_cross) ==
    IF i > Len(sizes)
    THEN create_component_size(O, total_along, total_cross)
    ELSE LET split == split_component_size(O, sizes[i])
         IN  SizeFold(O, sizes, i + 1,
                      ValueRange_add_assign(total_along, split[1]),
                      ValueRange_expand(total_cross, split[2]))

LayoutableLinearLayout_size(O, LL) ==
    SizeFold(O, fill_sizes(LL), 1, ValueRange_default, ValueRange_default)

----------------------------------------------------------------------------
(* LayoutableLinearLayout::draw_placed: the locals *)

\* sizes: the along range of every slot
AlongSizes(O, LL) ==
    LET filled == fill_sizes(LL)
    IN  [i \in 1..Len(filled) |-> split_component_size(O, filled[i])[1]]

PreferredSizes(sizes) == [i \in 1..Len(sizes) |-> sizes[i].preferred_value]
MinSizes(sizes) == [i \in 1..Len(sizes) |-> sizes[i].min_value]
MaxSizes(sizes) == [i \in 1..Len(sizes) |-> sizes[i].max_value]

\* fold(Saturating(0), |s, v| s + v)
RECURSIVE FoldSat(_, _, _)
FoldSat(s, i, acc) ==
    IF i > Len(s) THEN acc ELSE FoldSat(s, i + 1, SatAddU32(acc, s[i]))

Total(s) == FoldSat(s, 1, 0)

\* the filter of entries_with_headroom, shrinking
ShrinkHeadroom(weight, result_size, size) ==
    weight > 0 /\ result_size > size.min_value

\* faulty variant: every entry with a weight is taken for growing
GrowHeadroom_any(weight, result_size, size) == weight > 0

\* the filter of entries_with_headroom, growing
GrowHeadroom(weight, result_size, size) ==
    weight > 0 /\ result_size < size.max_value

RECURSIVE ShrinkEntries(_, _, _, _)
ShrinkEntries(weights, results, sizes, i) ==
    IF i > Len(sizes) THEN <<>>
    ELSE (IF ShrinkHeadroom(weights[i], results[i], sizes[i]) THEN <<i>> ELSE <<>>)
         \o ShrinkEntries(weights, results, sizes, i + 1)

RECURSIVE GrowEntries(_, _, _, _)
GrowEntries(weights, results, sizes, i) ==
    IF i > Len(sizes) THEN <<>>
    ELSE (IF GrowHeadroom(weights[i], results[i], sizes[i]) THEN <<i>> ELSE <<>>)
         \o GrowEntries(weights, results, sizes, i + 1)

\* entries_with_headroom.iter().map(|((weight, _), _)| **weight).sum()
RECURSIVE SumWeights(_, _, _)
SumWeights(weights, entries, i) ==
    IF i > Len(entries) THEN 0
    ELSE weights[entries[i]] + SumWeights(weights, entries, i + 1)

\* faulty variant: every entry is offered the whole budget
TheoreticalShare_whole(budget, weight, weights_left) == budget

\* theoretical_decrease and theoretical_increase
TheoreticalShare(budget, weight, weights_left) ==
    SatDivU32(SatMulU32(budget, weight), weights_left)

\* faulty variant: the share is applied without regard to the minimum
selected_decrease_unclamped(theoretical_decrease, result_size, size) ==
    theoretical_decrease

selected_decrease(theoretical_decrease, result_size, size) ==
    Min(theoretical_decrease, SatSubU32(result_size, size.min_value))

selected_increase(theoretical_increase, result_size, size) ==
    Min(theoretical_increase, SatSubU32(size.max_value, result_size))

\* faulty variant: the share given to an entry is not taken off the budget
BudgetAfterEntry_keep(budget, theoretical) == budget

\* remaining_budget -= theoretical_decrease (resp. theoretical_increase)
BudgetAfterEntry(budget, theoretical) == SatSubU32(budget, theoretical)

\* faulty variant: the minimums are forced only when they exceed the target
ForcedMinimum_strict(total_min, along_target) == total_min > along_target

\* if total_min >= along_target { min_sizes }
ForcedMinimum(total_min, along_target) == total_min >= along_target

\* if total_max <= along_target { max_sizes }
ForcedMaximum(total_max, along_target) == total_max <= along_target

\* while remaining_budget > Saturating(0)
WhileTest(budget, body) == IF budget > 0 THEN body ELSE "place"

\* faulty variant: the loop has neither its test nor the break on no progress
AfterPass_repeat(budget_before, budget, body) == body

\* the end of a pass: the break when nothing was distributed, else the loop's test
AfterPass(budget_before, budget, body) ==
    IF budget_before = budget THEN "place" ELSE WhileTest(budget, body)

\* the rectangles of the slots, end to end
RECURSIVE PlaceSlots(_, _, _, _, _, _)
PlaceSlots(O, ls, i, along_offset, cross_offset, cross_target) ==
    IF i > Len(ls) THEN <<>>
    ELSE <<Rectangle(create_point(O, along_offset, cross_offset),
                     create_size(O, ls[i], cross_target))>>
         \o PlaceSlots(O, ls, i + 1, SatAddI32(along_offset, AsI32(ls[i])),
                       cross_offset, cross_target)

----------------------------------------------------------------------------
(* The linear layout as a state machine *)

Orientations == {"Horizontal", "Vertical"}

Origins == {Point(0, 0), Point(-3, 5)}
CrossExtents == {4}

\* the origin of the rectangles a linear layout is drawn into
LinOrigins == {Point(-3, 5)}

\* the rectangles a layout of orientation O is drawn into
DrawRects(O) ==
    {Rectangle(p, create_size(O, t, c)) :
        p \in LinOrigins, t \in 0..MaxTarget, c \in CrossExtents}

NoRect == [none |-> TRUE]

\* the locals of a call that is not running
LinIdle ==
    /\ pc = "idle"
    /\ position = NoRect
    /\ result_sizes = <<>>
    /\ remaining_budget = 0
    /\ remaining_budget_before = 0
    /\ entries_with_headroom = <<>>
    /\ remaining_weights = 0
    /\ k = 0
    /\ places = <<>>
    /\ drawn = <<>>
    /\ size_result = NoRect
    /\ draw_result = NoRect
    /\ child_results = <<>>

\* horizontal_layout(first_child, first_child_weight) or vertical_layout(..)
LinInit ==
    /\ orientation \in Orientations
    /\ \E l \in Elements, w \in Weights :
          /\ layout = SingleLinearLayout(l, w)
          /\ appended = <<[element |-> l, weight |-> w]>>
    /\ LinIdle

LinAppend(element, weight) ==
    /\ pc = "idle"
    /\ len(layout) < MaxSlots
    /\ layout' = ChainingLinearLayout(layout, element, weight)
    /\ appended' = Append(appended, [element |-> element, weight |-> weight])
    /\ UNCHANGED <<orientation, pc, position, result_sizes, remaining_budget,
                   remaining_budget_before, entries_with_headroom,
                   remaining_weights, k, places, drawn, size_result, draw_result,
                   child_results>>
    /\ UNCHANGED <<alignVars, borderVars, restVars>>

LinSize ==
    /\ pc = "idle"
    /\ size_result' = LayoutableLinearLayout_size(orientation, layout)
    /\ pc' = "sized"
    /\ UNCHANGED <<orientation, layout, appended, position, result_sizes,
                   remaining_budget, remaining_budget_before,
                   entries_with_headroom, remaining_weights, k, places, drawn,
                   draw_result,
                   child_results>>
    /\ UNCHANGED <<alignVars, borderVars, restVars>>

\* draw_placed up to the loops: the match on along_target.cmp(&total_preferred)
LinDrawPlaced(rect) ==
    /\ pc = "idle"
    /\ position' = rect
    /\ LET along_target == split_size(orientation, rect.size)[1]
           sizes == AlongSizes(orientation, layout)
           preferred_sizes == PreferredSizes(sizes)
           total_preferred == Total(preferred_sizes)
           min_sizes == MinSizes(sizes)
           total_min == Total(min_sizes)
           max_sizes == MaxSizes(sizes)
           total_max == Total(max_sizes)
       IN  IF along_target < total_preferred
           THEN IF ForcedMinimum(total_min, along_target)
                THEN /\ result_sizes' = min_sizes
                     /\ remaining_budget' = 0
                     /\ pc' = "place"
                ELSE /\ remaining_budget' = SatSubU32(total_preferred, along_target)
                     /\ result_sizes' = preferred_sizes
                     /\ pc' = WhileTest(remaining_budget', "shrink_pass")
           ELSE IF along_target = total_preferred
           THEN /\ result_sizes' = preferred_sizes
                /\ remaining_budget' = 0
                /\ pc' = "place"
           ELSE IF ForcedMaximum(total_max, along_target)
                THEN /\ result_sizes' = max_sizes
                     /\ remaining_budget' = 0
                     /\ pc' = "place"
                ELSE /\ remaining_budget' = SatSubU32(along_target, total_preferred)
                     /\ result_sizes' = preferred_sizes
                     /\ pc' = WhileTest(remaining_budget', "grow_pass")
    /\ UNCHANGED <<orientation, layout, appended, remaining_budget_before,
                   entries_with_headroom, remaining_weights, k, places, drawn,
                   size_result, draw_result,
                   child_results>>
    /\ UNCHANGED <<alignVars, borderVars, restVars>>

\* the head of a pass of the shrink loop, up to the break on remaining_weights == 0
ShrinkPass ==
    /\ pc = "shrink_pass"
    /\ LET entries == ShrinkEntries(fill_weights(layout), result_sizes,
                                    AlongSizes(orientation, layout), 1)
           weights_sum == SumWeights(fill_weights(layout), entries, 1)
       IN  /\ remaining_budget_before' = remaining_budget
           /\ entries_with_headroom' = entries
           /\ remaining_weights' = weights_sum
           /\ k' = 1
           /\ pc' = IF weights_sum = 0 THEN "place" ELSE "shrink_for"
    /\ UNCHANGED <<orientation, layout, appended, position, result_sizes,
                   remaining_budget, places, drawn, size_result, draw_result,
                   child_results>>
    /\ UNCHANGED <<alignVars, borderVars, restVars>>

\* one iteration of the for loop of the shrink loop
ShrinkFor ==
    /\ pc = "shrink_for"
    /\ k <= Len(entries_with_headroom)
    /\ LET i == entries_with_headroom[k]
           weight == fill_weights(layout)[i]
           size == AlongSizes(orientation, layout)[i]
           theoretical_decrease ==
               TheoreticalShare(remaining_budget, weight, remaining_weights)
           decrease == selected_decrease(theoretical_decrease, result_sizes[i], size)
       IN  /\ result_sizes' = [result_sizes EXCEPT ![i] = SatSubU32(@, decrease)]
           /\ remaining_budget' = BudgetAfterEntry(remaining_budget, theoretical_decrease)
           /\ remaining_weights' = remaining_weights - weight
    /\ k' = k + 1
    /\ UNCHANGED <<orientation, layout, appended, pc, position,
                   remaining_budget_before, entries_with_headroom, places, drawn,
                   size_result, draw_result,
                   child_results>>
    /\ UNCHANGED <<alignVars, borderVars, restVars>>

\* the end of a pass of the shrink loop
ShrinkPassEnd ==
    /\ pc = "shrink_for"
    /\ k > Len(entries_with_headroom)
    /\ pc' = AfterPass(remaining_budget_before, remaining_budget, "shrink_pass")
    /\ UNCHANGED <<orientation, layout, appended, position, result_sizes,
                   remaining_budget, remaining_budget_before,
                   entries_with_headroom, remaining_weights, k, places, drawn,
                   size_result, draw_result,
                   child_results>>
    /\ UNCHANGED <<alignVars, borderVars, restVars>>

\* the head of a pass of the grow loop, up to the break on remaining_weights == 0
GrowPass ==
    /\ pc = "grow_pass"
    /\ LET entries == GrowEntries(fill_weights(layout), result_sizes,
                                  AlongSizes(orientation, layout), 1)
           weights_sum == SumWeights(fill_weights(layout), entries, 1)
       IN  /\ remaining_budget_before' = remaining_budget
           /\ entries_with_headroom' = entries
           /\ remaining_weights' = weights_sum
           /\ k' = 1
           /\ pc' = IF weights_sum = 0 THEN "place" ELSE "grow_for"
    /\ UNCHANGED <<orientation, layout, appended, position, result_sizes,
                   remaining_budget, places, drawn, size_result, draw_result,
                   child_results>>
    /\ UNCHANGED <<alignVars, borderVars, restVars>>

\* one iteration of the for loop of the grow loop
GrowFor ==
    /\ pc = "grow_for"
    /\ k <= Len(entries_with_headroom)
    /\ LET i == entries_with_headroom[k]
           weight == fill_weights(layout)[i]
           size == AlongSizes(orientation, layout)[i]
           theoretical_increase ==
               TheoreticalShare(remaining_budget, weight, remaining_weights)
           increase == selected_increase(theoretical_increase, result_sizes[i], size)
       IN  /\ result_sizes' = [result_sizes EXCEPT ![i] = SatAddU32(@, increase)]
           /\ remaining_budget' = BudgetAfterEntry(remaining_budget, theoretical_increase)
           /\ remaining_weights' = remaining_weights - weight
    /\ k' = k + 1
    /\ UNCHANGED <<orientation, layout, appended, pc, position,
                   remaining_budget_before, entries_with_headroom, places, drawn,
                   size_result, draw_result,
                   child_results>>
    /\ UNCHANGED <<alignVars, borderVars, restVars>>

\* the end of a pass of the grow loop
GrowPassEnd ==
    /\ pc = "grow_for"
    /\ k > Len(entries_with_headroom)
    /\ pc' = AfterPass(remaining_budget_before, remaining_budget, "grow_pass")
    /\ UNCHANGED <<orientation, layout, appended, position, result_sizes,
                   remaining_budget, remaining_budget_before,
                   entries_with_headroom, remaining_weights, k, places, drawn,
                   size_result, draw_result,
                   child_results>>
    /\ UNCHANGED <<alignVars, borderVars, restVars>>

\* the map over the resolved extents that builds places
LinPlace ==
    /\ pc = "place"
    /\ LET origin == split_point(orientation, position.top_left)
           cross_target == split_size(orientation, position.size)[2]
       IN  places' = PlaceSlots(orientation, result_sizes, 1, origin[1],
                                origin[2], cross_target)
    /\ pc' = "draw"
    /\ UNCHANGED <<orientation, layout, appended, position, result_sizes,
                   remaining_budget, remaining_budget_before,
                   entries_with_headroom, remaining_weights, k, drawn,
                   size_result, draw_result,
                   child_results>>
    /\ UNCHANGED <<alignVars, borderVars, restVars>>

\* what the draw of a child can return: None draws nothing and returns Ok(())
Layoutable_draw_outcomes(l) == IF l = None THEN {Ok} ELSE DrawOutcomes

\* what the draws of the slots of a layout return when they are called: every
\* draw succeeds, or the draws before slot f succeed, the draw of slot f fails
\* with e and every later draw that can fail would fail with another error
ChildOutcomes(LL) ==
    LET sizes == fill_sizes(LL)
        outcomes_of(i) == Layoutable_draw_outcomes(Element(sizes[i]))
    IN  {[i \in 1..len(LL) |-> Ok]}
            \cup {[i \in 1..len(LL) |->
                      IF i < f THEN Ok
                      ELSE IF i = f THEN Err(e)
                      ELSE IF outcomes_of(i) = {Ok} THEN Ok
                      ELSE Err(CHOOSE other \in DrawErrors : other # e)] :
                  f \in {i \in 1..len(LL) : outcomes_of(i) # {Ok}},
                  e \in DrawErrors}

\* self.0.draw_placed_components(target, &places)
LinDrawComponents(outcomes) ==
    /\ pc = "draw"
    /\ LET drawing == draw_placed_components(layout, places, outcomes)
       IN  /\ drawn' = drawing.drawn
           /\ draw_result' = drawing.result
    /\ child_results' = outcomes
    /\ pc' = "done"
    /\ UNCHANGED <<orientation, layout, appended, position, result_sizes,
                   remaining_budget, remaining_budget_before,
                   entries_with_headroom, remaining_weights, k, places,
                   size_result>>
    /\ UNCHANGED <<alignVars, borderVars, restVars>>

\* the call returns: its locals are dropped
LinReturn ==
    /\ pc \in {"done", "sized"}
    /\ pc' = "idle"
    /\ position' = NoRect
    /\ result_sizes' = <<>>
    /\ remaining_budget' = 0
    /\ remaining_budget_before' = 0
    /\ entries_with_headroom' = <<>>
    /\ remaining_weights' = 0
    /\ k' = 0
    /\ places' = <<>>
    /\ drawn' = <<>>
    /\ size_result' = NoRect
    /\ draw_result' = NoRect
    /\ child_results' = <<>>
    /\ UNCHANGED <<orientation, layout, appended>>
    /\ UNCHANGED <<alignVars, borderVars, restVars>>

\* the steps inside one call of draw_placed
LinDrawSteps ==
    \/ ShrinkPass \/ ShrinkFor \/ ShrinkPassEnd
    \/ GrowPass \/ GrowFor \/ GrowPassEnd
    \/ LinPlace
    \/ /\ pc = "draw"
       /\ \E outcomes \in ChildOutcomes(layout) : LinDrawComponents(outcomes)
    \/ LinReturn

LinNext ==
    \/ \E l \in Elements, w \in Weights : LinAppend(l, w)
    \/ LinSize
    \/ \E rect \in DrawRects(orientation) : LinDrawPlaced(rect)
    \/ LinDrawSteps

----------------------------------------------------------------------------
(* The alignment wrapper *)

\* faulty variant: the halves are rounded down instead of toward zero
CenteredAlignment_place_floor(available_range, target_range) ==
    IF target_range.max_value < available_range
    THEN <<AsI32(SatSubU32(available_range, target_range.max_value)) \div 2,
           target_range.max_value>>
    ELSE IF target_range.min_value > available_range
    THEN <<ClampI32(SatSubI32(AsI32(available_range),
                              AsI32(target_range.min_value)) \div 2),
           target_range.min_value>>
    ELSE <<0, available_range>>

\* each yields <<offset, extent>>
CenteredAlignment_place(available_range, target_range) ==
    IF target_range.max_value < available_range
    THEN <<TruncDiv(AsI32(SatSubU32(available_range, target_range.max_value)), 2),
           target_range.max_value>>
    ELSE IF target_range.min_value > available_range
    THEN <<SatDivI32(SatSubI32(AsI32(available_range), AsI32(target_range.min_value)), 2),
           target_range.min_value>>
    ELSE <<0, available_range>>

\* faulty variant: the child always fills the available extent
StartAlignment_place_fill(available_range, target_range) == <<0, available_range>>


StartAlignment_place(available_range, target_range) ==
    IF target_range.max_value < available_range
    THEN <<0, target_range.max_value>>
    ELSE IF target_range.min_value > available_range
    THEN <<0, target_range.min_value>>
    ELSE <<0, available_range>>

EndAlignment_place(available_range, target_range) ==
    IF target_range.max_value < available_range
    THEN <<SatSubI32(AsI32(available_range), AsI32(target_range.max_value)),
           target_range.max_value>>
    ELSE IF target_range.min_value > available_range
    THEN <<SatSubI32(AsI32(available_range), AsI32(target_range.min_value)),
           target_range.min_value>>
    ELSE <<0, available_range>>

\* HA::place and VA::place
Alignment_place(A, available_range, target_range) ==
    CASE A = "Centered" -> CenteredAlignment_place(available_range, target_range)
      [] A = "Start" -> StartAlignment_place(available_range, target_range)
      [] A = "End" -> EndAlignment_place(available_range, target_range)

AlignLayout(l, HA, VA) == [layoutable |-> l, HA |-> HA, VA |-> VA]

center(l) == AlignLayout(l, "Centered", "Centered")
west(l) == AlignLayout(l, "Start", "Centered")
east(l) == AlignLayout(l, "End", "Centered")
north(l) == AlignLayout(l, "Centered", "Start")
south(l) == AlignLayout(l, "Centered", "End")

AlignLayout_place(HA, VA, component_size, available_area) ==
    LET origin == available_area.top_left
        h == Alignment_place(HA, available_area.size.width, component_size.width)
        v == Alignment_place(VA, available_area.size.height, component_size.height)
    IN  Rectangle(Point(origin.x + h[1], origin.y + v[1]), Size(h[2], v[2]))

AlignLayout_size(self) == Layoutable_size(self.layoutable)

Fixed5 == ValueRange_fixed(5)

AlignRanges == {ValueRange_default, Flex, Shrk, Grow, Fixed5}

AlignElements == {Element(ComponentSize(w, h)) : w \in AlignRanges, h \in AlignRanges}

\* the available extents: the small ones, and the largest one an i32 holds
AvailableExtents == (0..MaxAvailable) \cup {I32_MAX}

AlignRects ==
    {Rectangle(p, Size(w, h)) :
        p \in Origins, w \in AvailableExtents, h \in AvailableExtents}

AlignInit ==
    /\ \E l \in AlignElements :
          al_layout \in {center(l), west(l), east(l), north(l), south(l)}
    /\ al_pc = "idle"
    /\ al_position = NoRect
    /\ al_placed = NoRect

\* draw_placed: the child is drawn into Self::place(self.layoutable.size(), position)
AlignDrawPlaced(rect) ==
    /\ al_pc = "idle"
    /\ al_position' = rect
    /\ al_placed' = AlignLayout_place(al_layout.HA, al_layout.VA,
                                      Layoutable_size(al_layout.layoutable), rect)
    /\ al_pc' = "placed"
    /\ UNCHANGED <<al_layout, linVars, borderVars, restVars>>

AlignReturn ==
    /\ al_pc = "placed"
    /\ al_pc' = "idle"
    /\ al_position' = NoRect
    /\ al_placed' = NoRect
    /\ UNCHANGED <<al_layout, linVars, borderVars, restVars>>

AlignNext ==
    \/ \E rect \in AlignRects : AlignDrawPlaced(rect)
    \/ AlignReturn

----------------------------------------------------------------------------
(* The border wrapper *)

DashedLine(dot_count, gap_count) ==
    [kind |-> "DashedLine", dot_count |-> dot_count, gap_count |-> gap_count]

RoundedLine == [kind |-> "RoundedLine"]

\* faulty variant: every decorator reports the width of the dashed line
Decorator_width_one(decorator) == 1

Decorator_width(decorator) == IF decorator.kind = "DashedLine" THEN 1 ELSE 2

\* ValueRange + Saturating<u32>: the offset is added to the three fields
ValueRange_add(self, rhs) ==
    [preferred_value |-> SatAddU32(self.preferred_value, rhs),
     min_value |-> SatAddU32(self.min_value, rhs),
     max_value |-> SatAddU32(self.max_value, rhs)]

Bordered(l, decorator) == [layoutable |-> l, decorator |-> decorator]

\* faulty variant: the border is counted on one side only
Bordered_size_one_side(self) ==
    LET size == Layoutable_size(self.layoutable)
        offset == Decorator_width(self.decorator)
    IN  ComponentSize(ValueRange_add(size.width, offset),
                      ValueRange_add(size.height, offset))


Bordered_size(self) ==
    LET size == Layoutable_size(self.layoutable)
        offset == Decorator_width(self.decorator) * 2
    IN  ComponentSize(ValueRange_add(size.width, offset),
                      ValueRange_add(size.height, offset))

\* a range whose fields are within a few pixels of u32::MAX
NearMax == ValueRange(U32_MAX - 3, 2, U32_MAX - 1)

BorderRanges == {ValueRange_default, Flex, Shrk, Grow, Fixed5, NearMax}

BorderElements ==
    {Element(ComponentSize(w, h)) : w \in BorderRanges, h \in BorderRanges}

Decorators ==
    {DashedLine(d, g) : d \in 1..MaxDots, g \in 0..MaxGaps} \cup {RoundedLine}

\* u32 - u32 where the difference is negative: a panic when the build checks
\* overflow, else the difference modulo 2^32
SubOverflows(a, b) == a < b
WrapSubU32(a, b) == (a - b) % (U32_MAX + 1)

\* inner_position of Bordered::draw_placed
Bordered_inner_position(self, rect) ==
    LET border == Decorator_width(self.decorator)
    IN  Rectangle(Point(rect.top_left.x + AsI32(border),
                        rect.top_left.y + AsI32(border)),
                  Size(WrapSubU32(rect.size.width, 2 * border),
                       WrapSubU32(rect.size.height, 2 * border)))

\* whether the computation of inner_position overflows
Bordered_inner_overflows(self, rect) ==
    LET border == Decorator_width(self.decorator)
    IN  \/ SubOverflows(rect.size.width, 2 * border)
        \/ SubOverflows(rect.size.height, 2 * border)

\* the extents of the rectangles a bordered element is drawn into
BorderExtents == 0..MaxBorderExtent

BorderRects ==
    {Rectangle(p, Size(w, h)) : p \in Origins, w \in BorderExtents, h \in BorderExtents}

BorderInit ==
    /\ \E l \in BorderElements, d \in Decorators : bd_layout = Bordered(l, d)
    /\ bd_pc = "idle"
    /\ bd_size = NoRect
    /\ bd_position = NoRect
    /\ bd_inner = NoRect
    /\ bd_drawn = <<>>
    /\ bd_result = NoRect

BorderSize ==
    /\ bd_pc = "idle"
    /\ bd_size' = Bordered_size(bd_layout)
    /\ bd_pc' = "sized"
    /\ UNCHANGED <<bd_layout, bd_position, bd_inner, bd_drawn, bd_result>>
    /\ UNCHANGED <<linVars, alignVars, restVars>>

\* draw_placed up to the draws: inner_position is computed first
BorderDrawPlaced(rect, overflow_checks) ==
    /\ bd_pc = "idle"
    /\ bd_position' = rect
    /\ IF Bordered_inner_overflows(bd_layout, rect) /\ overflow_checks
       THEN /\ bd_pc' = "panicked"
            /\ bd_inner' = NoRect
       ELSE /\ bd_pc' = "decorate"
            /\ bd_inner' = Bordered_inner_position(bd_layout, rect)
    /\ UNCHANGED <<bd_layout, bd_size, bd_drawn, bd_result>>
    /\ UNCHANGED <<linVars, alignVars, restVars>>

\* self.decorator.draw_placed(target, position)?
BorderDecorate(outcome) ==
    /\ bd_pc = "decorate"
    /\ bd_drawn' = Append(bd_drawn, [what |-> "decorator", position |-> bd_position,
                                    outcome |-> outcome])
    /\ IF outcome.ok
       THEN /\ bd_pc' = "child"
            /\ bd_result' = bd_result
       ELSE /\ bd_pc' = "returned"
            /\ bd_result' = outcome
    /\ UNCHANGED <<bd_layout, bd_size, bd_position, bd_inner>>
    /\ UNCHANGED <<linVars, alignVars, restVars>>

\* self.layoutable.draw_placed(target, inner_position)
BorderChild(outcome) ==
    /\ bd_pc = "child"
    /\ bd_drawn' = Append(bd_drawn, [what |-> "child", position |-> bd_inner,
                                    outcome |-> outcome])
    /\ bd_result' = outcome
    /\ bd_pc' = "returned"
    /\ UNCHANGED <<bd_layout, bd_size, bd_position, bd_inner>>
    /\ UNCHANGED <<linVars, alignVars, restVars>>

BorderReturn ==
    /\ bd_pc \in {"sized", "returned"}
    /\ bd_pc' = "idle"
    /\ bd_size' = NoRect
    /\ bd_position' = NoRect
    /\ bd_inner' = NoRect
    /\ bd_drawn' = <<>>
    /\ bd_result' = NoRect
    /\ UNCHANGED bd_layout
    /\ UNCHANGED <<linVars, alignVars, restVars>>

BorderNext ==
    \/ BorderSize
    \/ \E rect \in BorderRects, overflow_checks \in BOOLEAN :
          BorderDrawPlaced(rect, overflow_checks)
    \/ \E outcome \in DrawOutcomes : BorderDecorate(outcome)
    \/ \E outcome \in DrawOutcomes : BorderChild(outcome)
    \/ BorderReturn

----------------------------------------------------------------------------
(* The decorators: DashedLine and RoundedLine *)

\* the Rust range a..b as a sequence
Range(a, b) == IF b > a THEN [i \in 1..(b - a) |-> a + i - 1] ELSE <<>>

\* Iterator::rev
Rev(s) == [i \in 1..Len(s) |-> s[Len(s) + 1 - i]]

\* the pixels of a row (a column) for the x (the y) of a sequence
Row(xs, y) == [i \in 1..Len(xs) |-> Point(xs[i], y)]
Column(x, ys) == [i \in 1..Len(ys) |-> Point(x, ys[i])]

\* DashedLine::draw_placed: the chain of the four sides
DashedLine_chain(rect) ==
    LET sx == rect.top_left.x
        sy == rect.top_left.y
        ex == sx + AsI32(rect.size.width) - 1
        ey == sy + AsI32(rect.size.height) - 1
    IN  Row(Range(sx, ex), sy) \o Column(ex, Range(sy, ey))
            \o Row(Rev(Range(sx, ex)), ey) \o Column(sx, Rev(Range(sy, ey)))

\* faulty variant: one pixel more than dot_count is painted in each period
DashedLine_filter_inclusive(self, i) ==
    LET sequence_length == self.dot_count + self.gap_count
    IN  i % sequence_length <= self.dot_count

\* the filter of DashedLine::draw_placed, i the index enumerate() gives
DashedLine_filter(self, i) ==
    LET sequence_length == self.dot_count + self.gap_count
    IN  i % sequence_length < self.dot_count

\* enumerate() and filter(): the pairs (i, pixel) that pass, in order
RECURSIVE EnumerateFilter(_, _, _)
EnumerateFilter(self, chain, n) ==
    IF n = 0 THEN <<>>
    ELSE EnumerateFilter(self, chain, n - 1)
            \o (IF DashedLine_filter(self, n - 1)
                THEN <<[index |-> n - 1, pixel |-> chain[n]]>> ELSE <<>>)

\* faulty variant: the sides stop one pixel short of the corners instead of two
RoundedLine_chain_long(rect) ==
    LET sx == rect.top_left.x
        sy == rect.top_left.y
        ex == sx + AsI32(rect.size.width) - 1
        ey == sy + AsI32(rect.size.height) - 1
    IN  Row(Range(sx + 1, ex), sy) \o <<Point(ex - 1, sy + 1)>>
            \o Column(ex, Range(sy + 1, ey)) \o <<Point(ex - 1, ey - 1)>>
            \o Row(Rev(Range(sx + 1, ex)), ey) \o <<Point(sx + 1, ey - 1)>>
            \o Column(sx, Rev(Range(sy + 1, ey))) \o <<Point(sx + 1, sy + 1)>>

\* RoundedLine::draw_placed: the chain of the four sides and the four corner pixels
RoundedLine_chain(rect) ==
    LET sx == rect.top_left.x
        sy == rect.top_left.y
        ex == sx + AsI32(rect.size.width) - 1
        ey == sy + AsI32(rect.size.height) - 1
    IN  Row(Range(sx + 2, ex - 1), sy) \o <<Point(ex - 1, sy + 1)>>
            \o Column(ex, Range(sy + 2, ey - 1)) \o <<Point(ex - 1, ey - 1)>>
            \o Row(Rev(Range(sx + 2, ex - 1)), ey) \o <<Point(sx + 1, ey - 1)>>
            \o Column(sx, Rev(Range(sy + 2, ey - 1))) \o <<Point(sx + 1, sy + 1)>>

\* Decorator::draw_placed: the chain and the pairs (i, pixel) given to draw_iter
Decorator_chain(self, rect) ==
    IF self.kind = "DashedLine" THEN DashedLine_chain(rect) ELSE RoundedLine_chain(rect)

Decorator_steps(self, rect) ==
    LET chain == Decorator_chain(self, rect)
    IN  IF self.kind = "DashedLine"
        THEN EnumerateFilter(self, chain, Len(chain))
        ELSE [i \in 1..Len(chain) |-> [index |-> i - 1, pixel |-> chain[i]]]

DecoratorExtents == 0..MaxDecoratorExtent

DecoratorRects ==
    {Rectangle(p, Size(w, h)) :
        p \in Origins, w \in DecoratorExtents, h \in DecoratorExtents}

DecoratorInit ==
    /\ dc_decorator \in Decorators
    /\ dc_pc = "idle"
    /\ dc_position = NoRect
    /\ dc_walk = <<>>
    /\ dc_steps = <<>>

DecoratorDrawPlaced(rect) ==
    /\ dc_pc = "idle"
    /\ dc_position' = rect
    /\ dc_walk' = Decorator_chain(dc_decorator, rect)
    /\ dc_steps' = Decorator_steps(dc_decorator, rect)
    /\ dc_pc' = "drawn"
    /\ UNCHANGED <<dc_decorator, linVars, alignVars, borderVars, paddingVars,
                   placementVars, callVars>>

DecoratorReturn ==
    /\ dc_pc = "drawn"
    /\ dc_pc' = "idle"
    /\ dc_position' = NoRect
    /\ dc_walk' = <<>>
    /\ dc_steps' = <<>>
    /\ UNCHANGED <<dc_decorator, linVars, alignVars, borderVars, paddingVars,
                   placementVars, callVars>>

DecoratorNext ==
    \/ \E rect \in DecoratorRects : DecoratorDrawPlaced(rect)
    \/ DecoratorReturn

----------------------------------------------------------------------------
(* The padding wrapper *)

\* i32 as u32
AsU32(v) == v % (U32_MAX + 1)

Padding(l, top, right, bottom, left) ==
    [layoutable |-> l, top |-> top, right |-> right, bottom |-> bottom, left |-> left]

\* faulty variant: the origin is shifted by (top, left) instead of (left, top)
Padding_position_transposed(self, rect) ==
    Rectangle(Point(rect.top_left.x + self.top, rect.top_left.y + self.left),
              Size(AsU32(SatSubI32(AsI32(rect.size.width), self.left + self.right)),
                   AsU32(SatSubI32(AsI32(rect.size.height), self.top + self.bottom))))

\* Padding::draw_placed: the rectangle handed to the child
Padding_position(self, rect) ==
    Rectangle(Point(rect.top_left.x + self.left, rect.top_left.y + self.top),
              Size(AsU32(SatSubI32(AsI32(rect.size.width), self.left + self.right)),
                   AsU32(SatSubI32(AsI32(rect.size.height), self.top + self.bottom))))

PaddingOffsets == (0 - MaxPad)..MaxPad

PaddingExtents == 0..MaxPadExtent

PaddingRects ==
    {Rectangle(p, Size(w, h)) : p \in Origins, w \in PaddingExtents, h \in PaddingExtents}

PaddingInit ==
    /\ \E top \in PaddingOffsets, right \in PaddingOffsets,
          bottom \in PaddingOffsets, left \in PaddingOffsets :
          pd_layout = Padding(Element(ComponentSize(Flex, Shrk)), top, right, bottom, left)
    /\ pd_pc = "idle"
    /\ pd_position = NoRect
    /\ pd_drawn = <<>>
    /\ pd_result = NoRect

\* draw_placed: the child is drawn into the adjusted rectangle, its result returned
PaddingDrawPlaced(rect, outcome) ==
    /\ pd_pc = "idle"
    /\ pd_position' = rect
    /\ pd_drawn' = Append(pd_drawn, [position |-> Padding_position(pd_layout, rect),
                                     outcome |-> outcome])
    /\ pd_result' = outcome
    /\ pd_pc' = "returned"
    /\ UNCHANGED <<pd_layout, linVars, alignVars, borderVars, decoratorVars,
                   placementVars, callVars>>

PaddingReturn ==
    /\ pd_pc = "returned"
    /\ pd_pc' = "idle"
    /\ pd_position' = NoRect
    /\ pd_drawn' = <<>>
    /\ pd_result' = NoRect
    /\ UNCHANGED <<pd_layout, linVars, alignVars, borderVars, decoratorVars,
                   placementVars, callVars>>

PaddingNext ==
    \/ \E rect \in PaddingRects, outcome \in DrawOutcomes : PaddingDrawPlaced(rect, outcome)
    \/ PaddingReturn

----------------------------------------------------------------------------
(* The placement observer: optional_placement(target, child), drawn by    *)
(* threads that share the node                                             *)

Threads == 1..MaxThreads
Unlocked == 0

\* Option<Rectangle>
Option_None == [none |-> TRUE]
Option_Some(rectangle) == [some |-> rectangle]

\* a callback that leaves the target as it is
optional_placement_callback_keep(target, rectangle) == target

\* |rectangle: Rectangle| *target = Some(rectangle)
optional_placement_callback(target, rectangle) == Option_Some(rectangle)

\* a try_lock that takes the lock whatever its state
Mutex_try_lock_any(lock, poisoned) == TRUE

\* Mutex::try_lock is Ok when the lock is free and not poisoned
Mutex_try_lock(lock, poisoned) == lock = Unlocked /\ ~poisoned

\* the node: callback_placement(callback, layoutable)
CallbackPlacement(layoutable) == [layoutable |-> layoutable]

ObservedNode == CallbackPlacement(Element(ComponentSize(Flex, Shrk)))

\* a size() that reports nothing of the child
CallbackPlacement_size_default(self) == ComponentSize_default

\* self.layoutable.size()
CallbackPlacement_size(self) == Layoutable_size(self.layoutable)

PlacementExtents == 0..MaxPlacementExtent

PlacementRects ==
    {Rectangle(p, Size(w, h)) : p \in LinOrigins, w \in PlacementExtents,
                                h \in CrossExtents}

\* a thread that is not drawing the node
PlacementIdle ==
    [pc |-> "idle", position |-> NoRect, trace |-> <<>>, result |-> NoRect,
     overlapped |-> FALSE]

PlacementInit ==
    /\ pl_threads = [t \in Threads |-> PlacementIdle]
    /\ pl_lock = Unlocked
    /\ pl_poisoned = FALSE
    /\ pl_target = Option_None

\* a thread calls draw_placed(target, position); the draws that are running
\* now overlap with it
PlacementDrawPlaced(t, rect) ==
    /\ pl_threads[t].pc = "idle"
    /\ LET running == {u \in Threads :
                          pl_threads[u].pc \notin {"idle", "sized", "panicked"}}
       IN  pl_threads' =
               [u \in Threads |->
                   IF u = t
                   THEN [PlacementIdle EXCEPT !.pc = "try_lock", !.position = rect,
                                              !.overlapped = running # {}]
                   ELSE IF u \in running
                        THEN [pl_threads[u] EXCEPT !.overlapped = TRUE]
                        ELSE pl_threads[u]]
    /\ UNCHANGED <<pl_lock, pl_poisoned, pl_target>>
    /\ UNCHANGED <<linVars, alignVars, borderVars, decoratorVars, paddingVars,
                   callVars>>

\* if let Ok(mut mutex) = self.callback.try_lock() { .. } else { warn }
PlacementTryLock(t) ==
    /\ pl_threads[t].pc = "try_lock"
    /\ IF Mutex_try_lock(pl_lock, pl_poisoned)
       THEN /\ pl_lock' = t
            /\ pl_threads' = [pl_threads EXCEPT ![t].pc = "callback"]
       ELSE /\ pl_lock' = pl_lock
            /\ pl_threads' = [pl_threads EXCEPT ![t].pc = "child"]
    /\ UNCHANGED <<pl_poisoned, pl_target>>
    /\ UNCHANGED <<linVars, alignVars, borderVars, decoratorVars, paddingVars,
                   callVars>>

\* (mutex.deref_mut())(position)
PlacementCallback(t) ==
    /\ pl_threads[t].pc = "callback"
    /\ pl_target' = optional_placement_callback(pl_target, pl_threads[t].position)
    /\ pl_threads' =
           [pl_threads EXCEPT
               ![t].pc = "unlock",
               ![t].trace = Append(@, [what |-> "callback",
                                       position |-> pl_threads[t].position])]
    /\ UNCHANGED <<pl_lock, pl_poisoned>>
    /\ UNCHANGED <<linVars, alignVars, borderVars, decoratorVars, paddingVars,
                   callVars>>

\* a callback given to callback_placement panics: the guard is dropped while
\* the thread unwinds, which poisons the lock, and the draw does not return
PlacementCallbackPanics(t) ==
    /\ pl_threads[t].pc = "callback"
    /\ pl_threads' = [pl_threads EXCEPT ![t].pc = "panicked"]
    /\ pl_lock' = Unlocked
    /\ pl_poisoned' = TRUE
    /\ UNCHANGED pl_target
    /\ UNCHANGED <<linVars, alignVars, borderVars, decoratorVars, paddingVars,
                   callVars>>

\* the guard is dropped at the end of the if let
PlacementUnlock(t) ==
    /\ pl_threads[t].pc = "unlock"
    /\ pl_lock' = Unlocked
    /\ pl_threads' = [pl_threads EXCEPT ![t].pc = "child"]
    /\ UNCHANGED <<pl_poisoned, pl_target>>
    /\ UNCHANGED <<linVars, alignVars, borderVars, decoratorVars, paddingVars,
                   callVars>>

\* self.layoutable.draw_placed(target, position)
PlacementChild(t, outcome) ==
    /\ pl_threads[t].pc = "child"
    /\ pl_threads' =
           [pl_threads EXCEPT
               ![t].pc = "returned",
               ![t].trace = Append(@, [what |-> "child",
                                       position |-> pl_threads[t].position,
                                       outcome |-> outcome]),
               ![t].result = outcome]
    /\ UNCHANGED <<pl_lock, pl_poisoned, pl_target>>
    /\ UNCHANGED <<linVars, alignVars, borderVars, decoratorVars, paddingVars,
                   callVars>>

\* a thread calls size()
PlacementSize(t) ==
    /\ pl_threads[t].pc = "idle"
    /\ pl_threads' = [pl_threads EXCEPT ![t].pc = "sized",
                                        ![t].result = CallbackPlacement_size(ObservedNode)]
    /\ UNCHANGED <<pl_lock, pl_poisoned, pl_target>>
    /\ UNCHANGED <<linVars, alignVars, borderVars, decoratorVars, paddingVars,
                   callVars>>

PlacementReturn(t) ==
    /\ pl_threads[t].pc \in {"sized", "returned"}
    /\ pl_threads' = [pl_threads EXCEPT ![t] = PlacementIdle]
    /\ UNCHANGED <<pl_lock, pl_poisoned, pl_target>>
    /\ UNCHANGED <<linVars, alignVars, borderVars, decoratorVars, paddingVars,
                   callVars>>

PlacementNext ==
    \/ \E t \in Threads : PlacementSize(t)
    \/ \E t \in Threads, rect \in PlacementRects : PlacementDrawPlaced(t, rect)
    \/ \E t \in Threads : PlacementTryLock(t)
    \/ \E t \in Threads : PlacementCallback(t)
    \/ \E t \in Threads : PlacementCallbackPanics(t)
    \/ \E t \in Threads : PlacementUnlock(t)
    \/ \E t \in Threads, outcome \in DrawOutcomes : PlacementChild(t, outcome)
    \/ \E t \in Threads : PlacementReturn(t)

----------------------------------------------------------------------------
(* draw_placed_components with draws that return a point: Result<Point, _> *)

\* no function is called on its own
NoCall == [name |-> "none"]

\* Ok(point)
OkPoint(point) == [ok |-> TRUE, point |-> point]

CursorPoints == {Point(0, 0), Point(4, 0), Point(4, 7)}
CursorOutcomes == {OkPoint(p) : p \in CursorPoints} \cup {Err(e) : e \in DrawErrors}

\* the layouts of n + 1 slots, the children and the weights being of no account
RECURSIVE CursorLayout(_)
CursorLayout(n) ==
    IF n = 0 THEN SingleLinearLayout(None, 1)
    ELSE ChainingLinearLayout(CursorLayout(n - 1), None, 1)

\* slot i is drawn into a rectangle of its own
CursorPlaces(n) == [i \in 1..n |-> Rectangle(Point(i, 0), Size(1, 1))]

CursorInit ==
    /\ fn_call = NoCall
    /\ fn_result = NoRect

\* self.0.draw_placed_components(target, &places)
CursorDraw(n, outcomes) ==
    /\ fn_call = NoCall
    /\ fn_call' = [name |-> "draw_placed_components", outcomes |-> outcomes]
    /\ fn_result' = draw_placed_components(CursorLayout(n - 1), CursorPlaces(n), outcomes)
    /\ UNCHANGED <<linVars, alignVars, borderVars, decoratorVars, paddingVars,
                   placementVars>>

CallReturn ==
    /\ fn_call # NoCall
    /\ fn_call' = NoCall
    /\ fn_result' = NoRect
    /\ UNCHANGED <<linVars, alignVars, borderVars, decoratorVars, paddingVars,
                   placementVars>>

CursorNext ==
    \/ /\ fn_call = NoCall
       /\ \E n \in 1..(MaxSlots + 1) :
             \E outcomes \in [1..n -> CursorOutcomes] : CursorDraw(n, outcomes)
    \/ CallReturn

----------------------------------------------------------------------------
(* LayoutableLinearLayout::draw_placed as a function of the layout and the *)
(* rectangle: the rectangles it hands to draw_placed_components            *)

\* the for loop of a pass, from entry k on; dir tells the shrink loop from
\* the grow loop
RECURSIVE DistributeFor(_, _, _, _, _, _, _, _)
DistributeFor(dir, weights, sizes, results, entries, n, budget, weights_left) ==
    IF n > Len(entries)
    THEN [result_sizes |-> results, remaining_budget |-> budget]
    ELSE LET i == entries[n]
             theoretical == TheoreticalShare(budget, weights[i], weights_left)
             selected ==
                 IF dir = "shrink"
                 THEN selected_decrease(theoretical, results[i], sizes[i])
                 ELSE selected_increase(theoretical, results[i], sizes[i])
             result_size ==
                 IF dir = "shrink"
                 THEN SatSubU32(results[i], selected)
                 ELSE SatAddU32(results[i], selected)
         IN  DistributeFor(dir, weights, sizes, [results EXCEPT ![i] = result_size],
                           entries, n + 1, BudgetAfterEntry(budget, theoretical),
                           weights_left - weights[i])

\* the while loop, from its test on
RECURSIVE DistributeWhile(_, _, _, _, _)
DistributeWhile(dir, weights, sizes, results, budget) ==
    IF WhileTest(budget, "pass") = "place"
    THEN results
    ELSE LET entries ==
                 IF dir = "shrink"
                 THEN ShrinkEntries(weights, results, sizes, 1)
                 ELSE GrowEntries(weights, results, sizes, 1)
             weights_sum == SumWeights(weights, entries, 1)
             pass == DistributeFor(dir, weights, sizes, results, entries, 1,
                                   budget, weights_sum)
         IN  IF weights_sum = 0
             THEN results
             ELSE IF AfterPass(budget, pass.remaining_budget, "pass") = "place"
                  THEN pass.result_sizes
                  ELSE DistributeWhile(dir, weights, sizes, pass.result_sizes,
                                       pass.remaining_budget)

\* the match on along_target.cmp(&total_preferred)
ResolvedSizes(weights, sizes, along_target) ==
    LET preferred_sizes == PreferredSizes(sizes)
        total_preferred == Total(preferred_sizes)
        min_sizes == MinSizes(sizes)
        max_sizes == MaxSizes(sizes)
    IN  IF along_target < total_preferred
        THEN IF ForcedMinimum(Total(min_sizes), along_target)
             THEN min_sizes
             ELSE DistributeWhile("shrink", weights, sizes, preferred_sizes,
                                  SatSubU32(total_preferred, along_target))
        ELSE IF along_target = total_preferred
        THEN preferred_sizes
        ELSE IF ForcedMaximum(Total(max_sizes), along_target)
             THEN max_sizes
             ELSE DistributeWhile("grow", weights, sizes, preferred_sizes,
                                  SatSubU32(along_target, total_preferred))

\* places
LayoutableLinearLayout_places(O, LL, rect) ==
    LET origin == split_point(O, rect.top_left)
        target == split_size(O, rect.size)
    IN  PlaceSlots(O, ResolvedSizes(fill_weights(LL), AlongSizes(O, LL), target[1]),
                   1, origin[1], origin[2], target[2])

\* the children of the layouts that are called on their own
Wide == ValueRange(2, 0, 4)
Tall == ValueRange(3, 1, 3)
CallElements == {None, Element(ComponentSize(Wide, Tall))}

CallWeights == 0..MaxCallWeight

\* the layouts of up to n slots
RECURSIVE CallLayouts(_)
CallLayouts(n) ==
    IF n = 1
    THEN {SingleLinearLayout(l, w) : l \in CallElements, w \in CallWeights}
    ELSE CallLayouts(n - 1)
            \cup {ChainingLinearLayout(base, l, w) :
                     base \in {LL \in CallLayouts(n - 1) : len(LL) = n - 1},
                     l \in CallElements, w \in CallWeights}

CallRects(O) ==
    {Rectangle(p, create_size(O, t, c)) :
        p \in LinOrigins, t \in 0..MaxCallTarget, c \in CrossExtents}

ResolveInit ==
    /\ fn_call = NoCall
    /\ fn_result = NoRect

\* draw_placed(target, position), up to the call of draw_placed_components
ResolveDrawPlaced(O, LL, rect) ==
    /\ fn_call = NoCall
    /\ fn_call' = [name |-> "draw_placed", orientation |-> O, layout |-> LL,
                   position |-> rect]
    /\ fn_result' = LayoutableLinearLayout_places(O, LL, rect)
    /\ UNCHANGED <<linVars, alignVars, borderVars, decoratorVars, paddingVars,
                   placementVars>>

ResolveNext ==
    \/ /\ fn_call = NoCall
       /\ \E O \in Orientations, LL \in CallLayouts(MaxCallSlots) :
             \E rect \in CallRects(O) : ResolveDrawPlaced(O, LL, rect)
    \/ CallReturn

----------------------------------------------------------------------------
(* The sizes the wrappers report *)

\* ValueRange + i32: the signed offset is added to the three fields, each
\* saturating at 0 and at u32::MAX
ValueRange_add_i32(self, rhs) ==
    [preferred_value |-> Max(0, Min(self.preferred_value + rhs, U32_MAX)),
     min_value |-> Max(0, Min(self.min_value + rhs, U32_MAX)),
     max_value |-> Max(0, Min(self.max_value + rhs, U32_MAX))]

\* Padding::size
Padding_size(self) ==
    LET size == Layoutable_size(self.layoutable)
    IN  ComponentSize(ValueRange_add_i32(size.width, self.left + self.right),
                      ValueRange_add_i32(size.height, self.top + self.bottom))

Expanders == {"AreaExpander", "HorizontalExpander", "VerticalExpander"}

\* expand(input), expand_horizontal(input), expand_vertical(input)
ExpandLayoutable(l, E) == [layoutable |-> l, E |-> E]

\* faulty variant: the maximum is moved to the minimum's place
Expander_expand_size_min(E, size) ==
    ComponentSize([size.width EXCEPT !.min_value = U32_MAX], size.height)

\* E::expand_size
Expander_expand_size(E, size) ==
    CASE E = "AreaExpander" ->
             ComponentSize(ValueRange_expand_max(size.width),
                           ValueRange_expand_max(size.height))
      [] E = "HorizontalExpander" ->
             ComponentSize(ValueRange_expand_max(size.width), size.height)
      [] E = "VerticalExpander" ->
             ComponentSize(size.width, ValueRange_expand_max(size.height))

\* ExpandLayoutable::size
ExpandLayoutable_size(self) ==
    Expander_expand_size(self.E, Layoutable_size(self.layoutable))

\* the elements the wrappers are built around and put beside
WrapLeaves ==
    {None,
     Element(ComponentSize(Flex, Shrk)),
     Element(ComponentSize(NearMax, Fixed5))}

WrapOffsets == {0 - MaxPad, 1}

\* an element under construction: the constructor called last, the number of
\* wrappers around the leaf, and the size() of the element it returned
Wrapped(name, size) ==
    /\ fn_call.name \in {"leaf", "wrapped"}
    /\ fn_call.depth < MaxWraps
    /\ fn_call' = [name |-> "wrapped", wrapper |-> name, depth |-> fn_call.depth + 1,
                   child |-> fn_result]
    /\ fn_result' = size
    /\ UNCHANGED <<linVars, alignVars, borderVars, decoratorVars, paddingVars,
                   placementVars>>

WrapInit ==
    /\ \E l \in WrapLeaves : fn_result = Layoutable_size(l)
    /\ fn_call = [name |-> "leaf", depth |-> 0]

\* bordered(layoutable, decorator)
WrapBordered(decorator) ==
    Wrapped("bordered", Bordered_size(Bordered(Element(fn_result), decorator)))

\* padding(layoutable, top, right, bottom, left)
WrapPadding(top, right, bottom, left) ==
    Wrapped("padding",
            Padding_size(Padding(Element(fn_result), top, right, bottom, left)))

\* expand(input), expand_horizontal(input), expand_vertical(input)
WrapExpand(E) ==
    Wrapped("expand", ExpandLayoutable_size(ExpandLayoutable(Element(fn_result), E)))

\* center(l) and the other alignments
WrapAlign ==
    Wrapped("align", AlignLayout_size(center(Element(fn_result))))

\* callback_placement(layoutable, callback)
WrapPlacement ==
    Wrapped("placement", CallbackPlacement_size(CallbackPlacement(Element(fn_result))))

\* horizontal_layout(element, 1).append(l, 1) and vertical_layout(..)
WrapLinear(O, l) ==
    Wrapped("linear",
            LayoutableLinearLayout_size(
                O, ChainingLinearLayout(SingleLinearLayout(Element(fn_result), 1),
                                        l, 1)))

WrapNext ==
    \/ \E decorator \in Decorators : WrapBordered(decorator)
    \/ \E top \in WrapOffsets, right \in WrapOffsets, bottom \in WrapOffsets,
          left \in WrapOffsets : WrapPadding(top, right, bottom, left)
    \/ \E E \in Expanders : WrapExpand(E)
    \/ WrapAlign
    \/ WrapPlacement
    \/ \E O \in Orientations, l \in WrapLeaves : WrapLinear(O, l)

\* three horizontal slots around the widths 10/20/10 with limits 5 and 100,
\* drawn into rectangles around the width 30
ScenarioWidths == {10, 20}
ScenarioWeights == {1, 2}
ScenarioTargets == 28 .. 32
ScenarioElement(preferred) ==
    Element(ComponentSize(ValueRange(preferred, 5, 100), Tall))

ScenarioLayouts ==
    {ChainingLinearLayout(
         ChainingLinearLayout(
             SingleLinearLayout(ScenarioElement(p[1]), w[1]),
             ScenarioElement(p[2]), w[2]),
         ScenarioElement(p[3]), w[3]) :
        p \in [1..3 -> ScenarioWidths], w \in [1..3 -> ScenarioWeights]}

ScenarioRects ==
    {Rectangle(p, create_size("Horizontal", t, c)) :
        p \in LinOrigins, t \in ScenarioTargets, c \in CrossExtents}

ScenarioNext ==
    \/ /\ fn_call = NoCall
       /\ \E LL \in ScenarioLayouts, rect \in ScenarioRects :
             ResolveDrawPlaced("Horizontal", LL, rect)
    \/ CallReturn

----------------------------------------------------------------------------
(* A component that a specification does not use *)

LinUnused ==
    /\ orientation = "Horizontal"
    /\ layout = NoRect
    /\ appended = <<>>
    /\ pc = "unused"
    /\ position = NoRect
    /\ result_sizes = <<>>
    /\ remaining_budget = 0
    /\ remaining_budget_before = 0
    /\ entries_with_headroom = <<>>
    /\ remaining_weights = 0
    /\ k = 0
    /\ places = <<>>
    /\ drawn = <<>>
    /\ size_result = NoRect
    /\ draw_result = NoRect
    /\ child_results = <<>>

AlignUnused ==
    /\ al_layout = NoRect
    /\ al_pc = "unused"
    /\ al_position = NoRect
    /\ al_placed = NoRect

BorderUnused ==
    /\ bd_layout = NoRect
    /\ bd_pc = "unused"
    /\ bd_size = NoRect
    /\ bd_position = NoRect
    /\ bd_inner = NoRect
    /\ bd_drawn = <<>>
    /\ bd_result = NoRect

DecoratorUnused ==
    /\ dc_decorator = NoRect
    /\ dc_pc = "unused"
    /\ dc_position = NoRect
    /\ dc_walk = <<>>
    /\ dc_steps = <<>>

PaddingUnused ==
    /\ pd_layout = NoRect
    /\ pd_pc = "unused"
    /\ pd_position = NoRect
    /\ pd_drawn = <<>>
    /\ pd_result = NoRect

PlacementUnused ==
    /\ pl_threads = [t \in Threads |-> [PlacementIdle EXCEPT !.pc = "unused"]]
    /\ pl_lock = Unlocked
    /\ pl_poisoned = FALSE
    /\ pl_target = Option_None

CallUnused ==
    /\ fn_call = NoCall
    /\ fn_result = NoRect

RestUnused == DecoratorUnused /\ PaddingUnused /\ PlacementUnused /\ CallUnused

----------------------------------------------------------------------------
(* Specifications *)

\* the linear layout
Init == LinInit /\ AlignUnused /\ BorderUnused /\ RestUnused

Next == LinNext

Spec == Init /\ [][Next]_vars

\* a call of draw_placed runs to its end
FairSpec == Spec /\ WF_vars(LinDrawSteps)

\* the alignment wrapper
AlignSpecInit == AlignInit /\ LinUnused /\ BorderUnused /\ RestUnused

AlignSpec == AlignSpecInit /\ [][AlignNext]_vars

\* the border wrapper
BorderSpecInit == BorderInit /\ LinUnused /\ AlignUnused /\ RestUnused

BorderSpec == BorderSpecInit /\ [][BorderNext]_vars

\* the draws that hand on an error of a child: the linear layout and the
\* border wrapper, each on its own
DrawErrorInit == Init \/ BorderSpecInit

DrawErrorNext == LinNext \/ BorderNext

DrawErrorSpec == DrawErrorInit /\ [][DrawErrorNext]_vars

\* the decorators
DecoratorSpecInit ==
    /\ DecoratorInit
    /\ LinUnused /\ AlignUnused /\ BorderUnused /\ PaddingUnused /\ PlacementUnused
    /\ CallUnused

DecoratorSpec == DecoratorSpecInit /\ [][DecoratorNext]_vars

\* the padding wrapper
PaddingSpecInit ==
    /\ PaddingInit
    /\ LinUnused /\ AlignUnused /\ BorderUnused /\ DecoratorUnused /\ PlacementUnused
    /\ CallUnused

PaddingSpec == PaddingSpecInit /\ [][PaddingNext]_vars

\* the placement observer
PlacementSpecInit ==
    /\ PlacementInit
    /\ LinUnused /\ AlignUnused /\ BorderUnused /\ DecoratorUnused /\ PaddingUnused
    /\ CallUnused

PlacementSpec == PlacementSpecInit /\ [][PlacementNext]_vars

\* draw_placed_components on its own
CursorSpecInit ==
    /\ CursorInit
    /\ LinUnused /\ AlignUnused /\ BorderUnused /\ DecoratorUnused /\ PaddingUnused
    /\ PlacementUnused

CursorSpec == CursorSpecInit /\ [][CursorNext]_vars

\* the placement of the slots as a function
ResolveSpecInit ==
    /\ ResolveInit
    /\ LinUnused /\ AlignUnused /\ BorderUnused /\ DecoratorUnused /\ PaddingUnused
    /\ PlacementUnused

ResolveSpec == ResolveSpecInit /\ [][ResolveNext]_vars

\* the wrappers around one another, as far as size() goes
WrapSpecInit ==
    /\ WrapInit
    /\ LinUnused /\ AlignUnused /\ BorderUnused /\ DecoratorUnused /\ PaddingUnused
    /\ PlacementUnused

WrapSpec == WrapSpecInit /\ [][WrapNext]_vars

\* the placement of three slots around the widths 10/20/10
ScenarioSpec == ResolveSpecInit /\ [][ScenarioNext]_vars

\* the calls of size() among the draws: the linear layout and the placement
\* observer, each on its own
SizeInit == Init \/ PlacementSpecInit

SizeNext == LinNext \/ PlacementNext

SizeSpec == SizeInit /\ [][SizeNext]_vars

----------------------------------------------------------------------------
(* Vocabulary of the properties of the linear layout: the slots as they    *)
(* were given to horizontal_layout / vertical_layout and append            *)

NSlots == Len(appended)
SlotWeight(i) == appended[i].weight
AlongRange(e) == IF orientation = "Horizontal" THEN e.size.width ELSE e.size.height
CrossRange(e) == IF orientation = "Horizontal" THEN e.size.height ELSE e.size.width
SlotRange(i) == AlongRange(appended[i].element)
AlongOrigin(p) == IF orientation = "Horizontal" THEN p.x ELSE p.y
CrossOrigin(p) == IF orientation = "Horizontal" THEN p.y ELSE p.x
AlongExtent(sz) == IF orientation = "Horizontal" THEN sz.width ELSE sz.height
CrossExtent(sz) == IF orientation = "Horizontal" THEN sz.height ELSE sz.width
Target == AlongExtent(position.size)

RECURSIVE SumTo(_, _)
SumTo(f, n) == IF n = 0 THEN 0 ELSE f[n] + SumTo(f, n - 1)

RECURSIVE MaxTo(_, _)
MaxTo(f, n) == IF n = 0 THEN 0 ELSE Max(f[n], MaxTo(f, n - 1))

SumMin == SumTo([i \in 1..NSlots |-> SlotRange(i).min_value], NSlots)
SumPreferred == SumTo([i \in 1..NSlots |-> SlotRange(i).preferred_value], NSlots)
SumMax == SumTo([i \in 1..NSlots |-> SlotRange(i).max_value], NSlots)
SumResolved == SumTo(result_sizes, NSlots)

LoopPcs == {"shrink_pass", "shrink_for", "grow_pass", "grow_for"}
InCall == pc \in LoopPcs \cup {"place", "draw", "done"}
Resolved == pc \in {"place", "draw", "done"}

----------------------------------------------------------------------------
(* Properties of the linear layout *)

\* C1: when every slot has a positive weight and sum(min) <= target <= sum(max),
\* the resolved along-extents sum to exactly the target.  (The claim, for the
\* slot lists that hold no weight-0 slot.)
C1_SumIsTarget ==
    (/\ Resolved
     /\ \A i \in 1..NSlots : SlotWeight(i) > 0
     /\ SumMin <= Target
     /\ Target <= SumMax)
    => SumResolved = Target

C3_ForcedToLimits ==
    Resolved =>
        /\ Target <= SumMin =>
              \A i \in 1..NSlots : result_sizes[i] = SlotRange(i).min_value
        /\ Target >= SumMax =>
              \A i \in 1..NSlots : result_sizes[i] = SlotRange(i).max_value

\* every slot at its minimum, one of them of weight 0 and below its preferred extent
C3_Witness ==
    /\ pc = "done"
    /\ Target <= SumMin
    /\ \E i \in 1..NSlots :
          /\ SlotWeight(i) = 0
          /\ result_sizes[i] = SlotRange(i).min_value
          /\ SlotRange(i).min_value < SlotRange(i).preferred_value

\* C4: the shrink loop and the grow loop terminate: a call that is in one of
\* them reaches the placement of the slots.
C4_LoopsTerminate == (pc \in LoopPcs) ~> (pc = "place")

\* a loop left with budget remaining, no eligible weight being left
C4_Witness ==
    /\ pc = "place"
    /\ remaining_budget > 0
    /\ entries_with_headroom = <<>>
    /\ \E i \in 1..NSlots : SlotWeight(i) > 0

\* C5: the loops never distribute more than their budget: at every step, what
\* was taken from the slots and what is still to be taken make at most
\* sum(preferred) - target, and likewise for what was added; so the resolved
\* extents sum to at least the target after shrinking and to at most the target
\* after growing.
C5_NeverOvershoots ==
    InCall =>
        /\ Target < SumPreferred => SumResolved - remaining_budget >= Target
        /\ Target > SumPreferred => SumResolved + remaining_budget <= Target

\* a grow loop that ended below the target
C5_Witness ==
    /\ pc = "done"
    /\ Target > SumPreferred
    /\ Target < SumMax
    /\ SumResolved > SumPreferred
    /\ SumResolved < Target

\* C6: the slots are placed end to end from the rectangle's along-origin, slot
\* i+1 starting where slot i ends, each with its resolved along-extent, the
\* rectangle's cross-origin and the rectangle's cross-extent.
C6_EndToEnd ==
    pc \in {"draw", "done"} =>
        /\ Len(places) = NSlots
        /\ \A i \in 1..NSlots :
              /\ AlongOrigin(places[i].top_left) =
                    AlongOrigin(position.top_left) + SumTo(result_sizes, i - 1)
              /\ CrossOrigin(places[i].top_left) = CrossOrigin(position.top_left)
              /\ AlongExtent(places[i].size) = result_sizes[i]
              /\ CrossExtent(places[i].size) = CrossExtent(position.size)
        /\ \A i \in 1..(NSlots - 1) :
              AlongOrigin(places[i + 1].top_left) =
                  AlongOrigin(places[i].top_left) + AlongExtent(places[i].size)

\* a vertical layout of two slots, the first of them not empty
C6_Witness ==
    /\ pc = "done"
    /\ orientation = "Vertical"
    /\ NSlots = 2
    /\ result_sizes[1] > 0
    /\ places[2].top_left.y = position.top_left.y + result_sizes[1]

\* C7: size() is, along the axis, the sum of the children's ranges field by
\* field (ranges add with saturation at u32::MAX) and, across the axis, their
\* maximum field by field; slot i is the i-th child given, for the sizes and
\* for the weights.
C7_SizeIsSumAndMax ==
    /\ pc = "sized" =>
          LET along == AlongRange([size |-> size_result])
              cross == CrossRange([size |-> size_result])
          IN  /\ along.preferred_value = Min(SumPreferred, U32_MAX)
              /\ along.min_value = Min(SumMin, U32_MAX)
              /\ along.max_value = Min(SumMax, U32_MAX)
              /\ cross.preferred_value =
                    MaxTo([i \in 1..NSlots |->
                           CrossRange(appended[i].element).preferred_value], NSlots)
              /\ cross.min_value =
                    MaxTo([i \in 1..NSlots |->
                           CrossRange(appended[i].element).min_value], NSlots)
              /\ cross.max_value =
                    MaxTo([i \in 1..NSlots |->
                           CrossRange(appended[i].element).max_value], NSlots)
    /\ pc # "unused" =>
          /\ fill_sizes(layout) = [i \in 1..NSlots |-> appended[i].element.size]
          /\ fill_weights(layout) = [i \in 1..NSlots |-> appended[i].weight]

\* the size of two different children, the sum of whose maximums saturates
C7_Witness ==
    /\ pc = "sized"
    /\ NSlots = 2
    /\ appended[1].element # appended[2].element
    /\ SumMax > U32_MAX
    /\ size_result.width.max_value = U32_MAX
    /\ size_result.height.max_value = U32_MAX

----------------------------------------------------------------------------
(* Properties of the alignment wrapper *)

AlignAxes == {"x", "y"}
AlignRule(a) == IF a = "x" THEN al_layout.HA ELSE al_layout.VA
AlignRange(a) ==
    IF a = "x" THEN al_layout.layoutable.size.width ELSE al_layout.layoutable.size.height
AlignAvailable(a) ==
    IF a = "x" THEN al_position.size.width ELSE al_position.size.height
AlignExtent(a) == IF a = "x" THEN al_placed.size.width ELSE al_placed.size.height
AlignOffset(a) ==
    IF a = "x"
    THEN al_placed.top_left.x - al_position.top_left.x
    ELSE al_placed.top_left.y - al_position.top_left.y

\* half of n, rounded toward zero
HalfTowardZero(n) == IF n >= 0 THEN n \div 2 ELSE 0 - ((0 - n) \div 2)

\* C8: under Start, Center and End the extent given to the child lies in
\* [min, max] of the child's range, and it is max when available >= max.
C8_ExtentWithinRange ==
    al_pc = "placed" =>
        \A a \in AlignAxes :
            /\ AlignRange(a).min_value <= AlignExtent(a)
            /\ AlignExtent(a) <= AlignRange(a).max_value
            /\ AlignAvailable(a) >= AlignRange(a).max_value =>
                  AlignExtent(a) = AlignRange(a).max_value

\* a child held at its maximum on one axis, at its minimum on the other, and
\* one whose maximum is exactly the available extent
C8_Witness ==
    /\ al_pc = "placed"
    /\ AlignRule("x") = "Start"
    /\ AlignRange("x").min_value < AlignRange("x").max_value
    /\ AlignAvailable("x") = AlignRange("x").max_value
    /\ AlignExtent("x") = AlignRange("x").max_value
    /\ AlignAvailable("y") < AlignRange("y").min_value
    /\ AlignExtent("y") = AlignRange("y").min_value

\* C9: per axis, max < available gives extent max and offset 0 (Start),
\* (available - max) / 2 (Center), available - max (End); min > available
\* gives extent min and offset 0 (Start), (available - min) / 2 rounded toward
\* zero (Center), available - min (End); otherwise extent available, offset 0.
C9_ThreeCaseTable ==
    al_pc = "placed" =>
        \A a \in AlignAxes :
            LET available == AlignAvailable(a)
                range == AlignRange(a)
                rule == AlignRule(a)
                limit == IF range.max_value < available THEN range.max_value
                         ELSE range.min_value
            IN  IF range.max_value < available \/ range.min_value > available
                THEN /\ AlignExtent(a) = limit
                     /\ rule = "Start" => AlignOffset(a) = 0
                     /\ rule = "Centered" =>
                           AlignOffset(a) = HalfTowardZero(available - limit)
                     /\ rule = "End" => AlignOffset(a) = available - limit
                ELSE /\ AlignExtent(a) = available
                     /\ AlignOffset(a) = 0

\* a fixed 5-wide child centered in a width of 11, at offset 3, and centered in
\* a height of 2, at offset -1
C9_Witness ==
    /\ al_pc = "placed"
    /\ al_layout = center(Element(ComponentSize(Fixed5, Fixed5)))
    /\ al_position.size = Size(11, 2)
    /\ AlignOffset("x") = 3
    /\ AlignExtent("x") = 5
    /\ AlignOffset("y") = -1
    /\ AlignExtent("y") = 5

----------------------------------------------------------------------------
(* Properties of the border wrapper *)

BorderWidthOf(decorator) ==
    CASE decorator.kind = "DashedLine" -> 1
      [] decorator.kind = "RoundedLine" -> 2

BorderFields == {"preferred_value", "min_value", "max_value"}

\* C10: the size of a bordered element is the child's size with twice the
\* decorator's width (1 for DashedLine, 2 for RoundedLine) added to preferred,
\* min and max on both axes, saturating at u32::MAX.
C10_BorderAddsTwiceWidth ==
    bd_pc = "sized" =>
        LET child == bd_layout.layoutable.size
            twice == 2 * BorderWidthOf(bd_layout.decorator)
        IN  \A f \in BorderFields :
                /\ bd_size.width[f] = Min(child.width[f] + twice, U32_MAX)
                /\ bd_size.height[f] = Min(child.height[f] + twice, U32_MAX)

\* a rounded border around a child whose preferred width saturates
C10_Witness ==
    /\ bd_pc = "sized"
    /\ bd_layout.decorator = RoundedLine
    /\ bd_layout.layoutable.size.width = NearMax
    /\ bd_layout.layoutable.size.height = Flex
    /\ bd_size.width.preferred_value = U32_MAX
    /\ bd_size.width.min_value = 6
    /\ bd_size.height = ValueRange(6, 5, 7)

\* the width a decorator reports
BorderW == BorderWidthOf(bd_layout.decorator)

\* an extent reduced by n, unsigned extents stopping at 0
ReducedBy(extent, n) == IF extent >= n THEN extent - n ELSE 0

\* C11: a bordered element drawn into R draws the decorator into R first and
\* then the child into R with the origin shifted by (w, w) and the width and
\* the height reduced by 2w (unsigned extents stopping at 0), w the
\* decorator's width.
C11_DecoratorThenInsetChild ==
    /\ bd_pc # "panicked"
    /\ bd_pc \in {"child", "returned"} =>
          /\ bd_drawn[1].what = "decorator"
          /\ bd_drawn[1].position = bd_position
    /\ (bd_pc = "returned" /\ Len(bd_drawn) = 2) =>
          /\ bd_drawn[2].what = "child"
          /\ bd_drawn[2].position =
                 Rectangle(Point(bd_position.top_left.x + BorderW,
                                 bd_position.top_left.y + BorderW),
                           Size(ReducedBy(bd_position.size.width, 2 * BorderW),
                                ReducedBy(bd_position.size.height, 2 * BorderW)))

\* C12: a bordered element drawn into a rectangle narrower or lower than 2w
\* does not fail, and the child's extent on that axis is 0.
C12_SmallRectClampsToZero ==
    /\ bd_pc # "panicked"
    /\ bd_pc \in {"decorate", "child", "returned"} =>
          /\ bd_position.size.width < 2 * BorderW => bd_inner.size.width = 0
          /\ bd_position.size.height < 2 * BorderW => bd_inner.size.height = 0

\* the slots whose draw fails when it is called
FailingSlots == {i \in 1..Len(child_results) : ~child_results[i].ok}

FirstFailingSlot == CHOOSE i \in FailingSlots : \A j \in FailingSlots : i <= j

\* C18: an error of a child's draw is handed on at once and unchanged. A
\* linear layout draws its children in slot order; when the draw of slot i
\* fails with e, no later slot is drawn and the layout's draw returns e. A
\* bordered element whose decorator's draw fails with e does not draw its
\* child and returns e.
C18_ErrorStopsTheDraw ==
    /\ pc = "done" =>
          IF FailingSlots = {}
          THEN /\ drawn = places
               /\ draw_result = Ok
          ELSE /\ drawn = SubSeq(places, 1, FirstFailingSlot)
               /\ draw_result = child_results[FirstFailingSlot]
    /\ (bd_pc = "returned" /\ ~bd_drawn[1].outcome.ok) =>
          /\ Len(bd_drawn) = 1
          /\ bd_drawn[1].what = "decorator"
          /\ bd_result = bd_drawn[1].outcome

\* the draw of slot 1 of two fails with e1 and slot 2, whose draw would fail
\* with e2, is not drawn
C18_Witness ==
    /\ pc = "done"
    /\ child_results = <<Err("e1"), Err("e2")>>
    /\ drawn = <<places[1]>>
    /\ draw_result = Err("e1")

----------------------------------------------------------------------------
(* Properties of the decorators *)

DcDashed == dc_pc = "drawn" /\ dc_decorator.kind = "DashedLine"
DcRounded == dc_pc = "drawn" /\ dc_decorator.kind = "RoundedLine"
DcSx == dc_position.top_left.x
DcSy == dc_position.top_left.y
DcEx == DcSx + dc_position.size.width - 1
DcEy == DcSy + dc_position.size.height - 1
DcPixels == {dc_steps[i].pixel : i \in 1..Len(dc_steps)}
DcIndices == {dc_steps[i].index : i \in 1..Len(dc_steps)}

\* C15: the dashed rule paints the pixel at step index i of its walk iff
\* i mod (dotCount + gapCount) < dotCount, the index running on over the whole
\* walk; the painted pixels are handed on in the order of the walk.
C15_DashCadence ==
    DcDashed =>
        /\ DcIndices =
              {i \in 0..(Len(dc_walk) - 1) :
                  i % (dc_decorator.dot_count + dc_decorator.gap_count)
                      < dc_decorator.dot_count}
        /\ \A j \in 1..Len(dc_steps) :
              /\ dc_steps[j].pixel = dc_walk[dc_steps[j].index + 1]
              /\ j > 1 => dc_steps[j - 1].index < dc_steps[j].index

\* dotCount 2, gapCount 2, a 7x7 rectangle: a walk of length 24 of which the
\* indices 0,1,4,5,8,9,12,13,16,17,20,21 are painted
C15_Witness ==
    /\ DcDashed
    /\ dc_decorator.dot_count = 2
    /\ dc_decorator.gap_count = 2
    /\ dc_position.size = Size(7, 7)
    /\ Len(dc_walk) = 24
    /\ DcIndices = {0, 1, 4, 5, 8, 9, 12, 13, 16, 17, 20, 21}

\* the pixels of the outline of the rectangle the decorator is drawn into
DcPerimeter ==
    {Point(x, y) : x \in DcSx..DcEx, y \in {DcSy, DcEy}}
        \cup {Point(x, y) : x \in {DcSx, DcEx}, y \in DcSy..DcEy}

Abs(n) == IF n < 0 THEN 0 - n ELSE n

\* C16: for a rectangle at least 2 wide and 2 high the walk of the dashed rule
\* starts at the top-left pixel, gives every pixel of the outline, the four
\* corners included, exactly one index, and goes from pixel to adjacent pixel.
C16_WalkIsPerimeter ==
    (DcDashed /\ dc_position.size.width >= 2 /\ dc_position.size.height >= 2) =>
        /\ dc_walk[1] = Point(DcSx, DcSy)
        /\ \A q \in DcPerimeter :
              Cardinality({i \in 1..Len(dc_walk) : dc_walk[i] = q}) = 1
        /\ \A i \in 1..Len(dc_walk) : dc_walk[i] \in DcPerimeter
        /\ \A i \in 1..(Len(dc_walk) - 1) :
              Abs(dc_walk[i + 1].x - dc_walk[i].x)
                  + Abs(dc_walk[i + 1].y - dc_walk[i].y) = 1

\* the mirror images of a pixel in the rectangle the decorator is drawn into
MirrorX(q) == Point(DcSx + DcEx - q.x, q.y)
MirrorY(q) == Point(q.x, DcSy + DcEy - q.y)

\* C17: for a rectangle at least 4 wide and 4 high the rounded rule paints
\* exactly the top and bottom rows for sx+2 <= x <= ex-2, the left and right
\* columns for sy+2 <= y <= ey-2 and the four pixels one step diagonally
\* inside the corners; the painted set is its own mirror image in x and in y.
C17_RoundedOutline ==
    (DcRounded /\ dc_position.size.width >= 4 /\ dc_position.size.height >= 4) =>
        /\ DcPixels =
              {Point(x, y) : x \in (DcSx + 2)..(DcEx - 2), y \in {DcSy, DcEy}}
                  \cup {Point(x, y) : x \in {DcSx, DcEx}, y \in (DcSy + 2)..(DcEy - 2)}
                  \cup {Point(DcSx + 1, DcSy + 1), Point(DcEx - 1, DcSy + 1),
                        Point(DcEx - 1, DcEy - 1), Point(DcSx + 1, DcEy - 1)}
        /\ {MirrorX(q) : q \in DcPixels} = DcPixels
        /\ {MirrorY(q) : q \in DcPixels} = DcPixels

\* a rounded rule around a rectangle 6 wide and 4 high: 2 pixels on the top
\* row, none on the left column, 8 in all
C17_Witness ==
    /\ DcRounded
    /\ dc_position.size = Size(6, 4)
    /\ Cardinality(DcPixels) = 8
    /\ Point(DcSx + 2, DcSy) \in DcPixels
    /\ Point(DcSx + 3, DcSy) \in DcPixels
    /\ Point(DcSx + 1, DcSy + 1) \in DcPixels
    /\ \A y \in DcSy..DcEy : Point(DcSx, y) \notin DcPixels

----------------------------------------------------------------------------
(* Properties of the padding wrapper *)

PdWidthLeft == pd_position.size.width - (pd_layout.left + pd_layout.right)
PdHeightLeft == pd_position.size.height - (pd_layout.top + pd_layout.bottom)

\* C13: when left + right exceeds the width (top + bottom the height) the
\* padded element hands its child the extent 0 on that axis.
C13_ExcessPaddingClampsToZero ==
    pd_pc = "returned" =>
        /\ PdWidthLeft < 0 => pd_drawn[1].position.size.width = 0
        /\ PdHeightLeft < 0 => pd_drawn[1].position.size.height = 0

\* C14: whenever the remaining size is not negative on either axis, a padded
\* element drawn into R draws its child, once, into the rectangle at
\* R.origin + (left, top) of size (R.width - (left + right),
\* R.height - (top + bottom)) and returns what that draw returned.
C14_PaddingIsShrunkRect ==
    (pd_pc = "returned" /\ PdWidthLeft >= 0 /\ PdHeightLeft >= 0) =>
        /\ Len(pd_drawn) = 1
        /\ pd_drawn[1].position =
              Rectangle(Point(pd_position.top_left.x + pd_layout.left,
                              pd_position.top_left.y + pd_layout.top),
                        Size(PdWidthLeft, PdHeightLeft))
        /\ pd_result = pd_drawn[1].outcome

\* a padding with a negative offset and four different offsets
C14_Witness ==
    /\ pd_pc = "returned"
    /\ pd_layout.top = -1
    /\ pd_layout.right = 1
    /\ pd_layout.bottom = 0
    /\ pd_layout.left = 2
    /\ pd_position.size = Size(4, 1)
    /\ pd_drawn[1].position.size = Size(1, 2)
    /\ pd_drawn[1].position.top_left =
          Point(pd_position.top_left.x + 2, pd_position.top_left.y - 1)
    /\ pd_result = Err("e2")

----------------------------------------------------------------------------
(* Properties of the placement observer *)

\* the draws that hold the lock to run the callback
PlInCallback == {t \in Threads : pl_threads[t].pc \in {"callback", "unlock"}}

\* the draw of t is past its if let
PlPastCallback(t) == pl_threads[t].pc \in {"child", "returned"}

\* the calls of the callback and the draws of the child made by the draw of t
PlCallbacks(t) ==
    SelectSeq(pl_threads[t].trace, LAMBDA entry : entry.what = "callback")

PlChildDraws(t) ==
    SelectSeq(pl_threads[t].trace, LAMBDA entry : entry.what = "child")

\* the draw of t has drawn the child into its rectangle and returns the
\* child's result
PlChildDrawnAndReturned(t) ==
    /\ Len(PlChildDraws(t)) = 1
    /\ pl_threads[t].trace[Len(pl_threads[t].trace)].what = "child"
    /\ PlChildDraws(t)[1].position = pl_threads[t].position
    /\ pl_threads[t].result = PlChildDraws(t)[1].outcome

\* t finds the lock held by another draw
PlFindsLockHeld(t) ==
    /\ pl_threads[t].pc = "try_lock"
    /\ pl_lock \in Threads \ {t}
    /\ pl_threads'[t] # pl_threads[t]

\* C19, as stated: every draw of a placement observer into R reports exactly
\* R to its callback, once and before the child is drawn, draws the child
\* into R, and leaves the target equal to Some(R).
C19_EveryDrawReports ==
    \A t \in Threads :
        /\ PlPastCallback(t) =>
              /\ Len(PlCallbacks(t)) = 1
              /\ pl_threads[t].trace[1] =
                     [what |-> "callback", position |-> pl_threads[t].position]
        /\ pl_threads[t].pc = "returned" => PlChildDrawnAndReturned(t)
        /\ (pl_threads[t].pc = "returned" /\ ~pl_threads[t].overlapped) =>
              pl_target = Option_Some(pl_threads[t].position)

\* C19, amended: a draw of a placement observer into R reports R to its
\* callback at most once, before the child is drawn, and nothing else; it
\* reports R exactly once when no other draw of the node overlaps with it and
\* no callback has panicked, and the target is then Some(R) from the callback
\* on; the child is drawn into R in every case.
C19_DrawReportsWhenLockIsFree ==
    \A t \in Threads :
        /\ Len(PlCallbacks(t)) <= 1
        /\ \A i \in 1..Len(pl_threads[t].trace) :
              /\ pl_threads[t].trace[i].position = pl_threads[t].position
              /\ pl_threads[t].trace[i].what = "callback" => i = 1
        /\ pl_threads[t].pc = "returned" => PlChildDrawnAndReturned(t)
        /\ (PlPastCallback(t) /\ ~pl_threads[t].overlapped /\ ~pl_poisoned) =>
              /\ Len(PlCallbacks(t)) = 1
              /\ pl_target = Option_Some(pl_threads[t].position)

\* a draw alone into a rectangle one wide has reported it and drawn the child
C19_Witness ==
    \E t \in Threads :
        /\ pl_threads[t].pc = "returned"
        /\ ~pl_threads[t].overlapped
        /\ pl_threads[t].position.size.width = 1
        /\ Len(pl_threads[t].trace) = 2
        /\ pl_target = Option_Some(pl_threads[t].position)

\* C20: a draw that finds the lock of the callback held by another draw of
\* the node skips the update, draws the child and returns the child's result;
\* try_lock never waits, a draw that made no report returns what the child
\* returned, and no two draws are in the callback at the same time.
C20_LockedCallbackIsSkipped ==
    /\ [](/\ Cardinality(PlInCallback) <= 1
          /\ \A t \in Threads :
                /\ pl_threads[t].pc = "try_lock" => ENABLED PlacementTryLock(t)
                /\ pl_threads[t].pc = "returned" => PlChildDrawnAndReturned(t))
    /\ [][\A t \in Threads :
             PlFindsLockHeld(t) =>
                 /\ pl_threads'[t] = [pl_threads[t] EXCEPT !.pc = "child"]
                 /\ pl_target' = pl_target
                 /\ pl_lock' = pl_lock]_vars

\* thread 2 found the lock held by thread 1, reported nothing, drew the child
\* and returns the child's error while thread 1 still holds the lock
C20_Witness ==
    /\ pl_lock = 1
    /\ pl_threads[1].pc = "unlock"
    /\ pl_threads[2].pc = "returned"
    /\ pl_threads[2].trace =
           <<[what |-> "child", position |-> pl_threads[2].position,
              outcome |-> Err("e1")]>>
    /\ pl_threads[2].result = Err("e1")
    /\ pl_threads[2].position # pl_threads[1].position
    /\ pl_target = Option_Some(pl_threads[1].position)

----------------------------------------------------------------------------
(* Properties of size() *)

\* a step in which the linear layout's size() is called or returns
LinSizeCalled == pc = "idle" /\ pc' = "sized"
LinSizeReturned == pc = "sized" /\ pc' = "idle"

\* a step in which thread t's size() of the observed node is called
PlSizeCalled(t) == pl_threads[t].pc = "idle" /\ pl_threads'[t].pc = "sized"

\* C21: size() is idempotent and free of side effects: a call returns the
\* value that the layout and its orientation determine, and no call of size()
\* or of draw_placed changes them; it changes no placement; after it has
\* returned the layout is in the state it was called in, so a later draw
\* computes what it would have computed without the call; size() of an
\* observed node returns the child's size, takes no lock and runs no callback.
C21_SizeHasNoEffect ==
    /\ [](\A t \in Threads :
              pl_threads[t].pc = "sized" =>
                  /\ pl_threads[t].result = ObservedNode.layoutable.size
                  /\ pl_threads[t].trace = <<>>)
    /\ [][/\ LinSizeCalled =>
                /\ UNCHANGED <<orientation, layout, appended, position,
                               result_sizes, places, drawn, draw_result>>
                /\ size_result' = LayoutableLinearLayout_size(orientation, layout)
          /\ LinSizeReturned => (LinIdle' /\ UNCHANGED <<orientation, layout, appended>>)
          /\ (pc # "idle" /\ pc' = "idle") => LinIdle'
          /\ pc # "idle" => UNCHANGED <<orientation, layout, appended>>
          /\ \A t \in Threads :
                PlSizeCalled(t) =>
                    /\ UNCHANGED <<pl_lock, pl_poisoned, pl_target>>
                    /\ \A u \in Threads \ {t} : pl_threads'[u] = pl_threads[u]]_vars

\* size() of an observed node is called while another thread holds the lock
\* of the callback, after a draw has recorded a rectangle
C21_Witness ==
    /\ pl_threads[1].pc = "sized"
    /\ pl_threads[2].pc = "callback"
    /\ pl_lock = 2
    /\ pl_target # Option_None

----------------------------------------------------------------------------
(* Properties of the result of a linear layout's draw *)

CursorOutcomesGiven == fn_call.outcomes
CursorSlots == Len(CursorOutcomesGiven)

\* C24: a draw of a linear layout that succeeds returns the outcome of the
\* draw of its last slot (the point that draw returned), whatever the earlier
\* slots returned; it succeeds exactly when the draw of every slot does, and
\* has then drawn every slot.
C24_LastSlotOutcome ==
    fn_call.name = "draw_placed_components" =>
        /\ fn_result.result.ok <=>
              \A i \in 1..CursorSlots : CursorOutcomesGiven[i].ok
        /\ fn_result.result.ok =>
              /\ fn_result.result = CursorOutcomesGiven[CursorSlots]
              /\ fn_result.drawn = CursorPlaces(CursorSlots)

\* three slots whose draws return three different points
C24_Witness ==
    /\ fn_call.name = "draw_placed_components"
    /\ CursorOutcomesGiven =
           <<OkPoint(Point(4, 7)), OkPoint(Point(0, 0)), OkPoint(Point(4, 0))>>
    /\ fn_result.result = OkPoint(Point(4, 0))

----------------------------------------------------------------------------
(* Vocabulary of the properties of the placement as a function *)

CallDrawn == fn_call.name = "draw_placed"
CallO == fn_call.orientation
CallWeightsGiven == fill_weights(fn_call.layout)
CallSizes == AlongSizes(CallO, fn_call.layout)
CallSlots == Len(CallSizes)
CallTarget == split_size(CallO, fn_call.position.size)[1]
CallExtent(i) == split_size(CallO, fn_result[i].size)[1]
CallSumPreferred == SumTo([i \in 1..CallSlots |-> CallSizes[i].preferred_value], CallSlots)
CallSumWeights == SumTo(CallWeightsGiven, CallSlots)

\* the budget of the call and what slot i can give to it
CallBudget == Abs(CallTarget - CallSumPreferred)
CallHeadroom(i) ==
    IF CallTarget < CallSumPreferred
    THEN CallSizes[i].preferred_value - CallSizes[i].min_value
    ELSE CallSizes[i].max_value - CallSizes[i].preferred_value
CallChange(i) == Abs(CallExtent(i) - CallSizes[i].preferred_value)

----------------------------------------------------------------------------
(* Properties of the distribution *)

\* C27: when every slot has a positive weight and headroom for the whole
\* budget, so that no slot reaches its limit, the change applied to each slot
\* differs from budget * weight / sum(weights) by less than one pixel, and the
\* changes sum to the budget.
C27_ShareWithinOnePixel ==
    (/\ CallDrawn
     /\ CallBudget > 0
     /\ \A i \in 1..CallSlots :
           CallWeightsGiven[i] > 0 /\ CallHeadroom(i) >= CallBudget)
    => /\ \A i \in 1..CallSlots :
             Abs(CallChange(i) * CallSumWeights - CallBudget * CallWeightsGiven[i])
                 < CallSumWeights
       /\ SumTo([i \in 1..CallSlots |-> CallChange(i)], CallSlots) = CallBudget

----------------------------------------------------------------------------
(* Properties of the absent optional element *)

\* the layout of the given elements and weights, built by horizontal_layout
\* or vertical_layout and append
RECURSIVE LayoutOf(_, _)
LayoutOf(elements, weights) ==
    IF Len(elements) = 1
    THEN SingleLinearLayout(elements[1], weights[1])
    ELSE ChainingLinearLayout(
             LayoutOf(SubSeq(elements, 1, Len(elements) - 1),
                      SubSeq(weights, 1, Len(weights) - 1)),
             elements[Len(elements)], weights[Len(weights)])

Without(seq, i) == SubSeq(seq, 1, i - 1) \o SubSeq(seq, i + 1, Len(seq))

CallElementsGiven ==
    LET sizes == fill_sizes(fn_call.layout)
    IN  [i \in 1..Len(sizes) |-> Element(sizes[i])]

\* C23: None reports the zero size and its draw returns Ok; as a slot of a
\* linear layout it resolves to extent 0 for every target and weight, and
\* every other slot gets the rectangle (extent and origin) it gets in the
\* layout built without that slot.
C23_AbsentSlotIsNeutral ==
    /\ Layoutable_size(None) = ComponentSize(ValueRange(0, 0, 0), ValueRange(0, 0, 0))
    /\ Layoutable_draw_outcomes(None) = {Ok}
    /\ CallDrawn =>
          \A i \in 1..CallSlots :
              CallElementsGiven[i] = None =>
                  /\ CallExtent(i) = 0
                  /\ CallSlots > 1 =>
                        Without(fn_result, i) =
                            LayoutableLinearLayout_places(
                                CallO,
                                LayoutOf(Without(CallElementsGiven, i),
                                         Without(CallWeightsGiven, i)),
                                fn_call.position)

\* None with weight 2 between two slots that grow
C23_Witness ==
    /\ CallDrawn
    /\ CallSlots = 3
    /\ CallElementsGiven[2] = None
    /\ CallWeightsGiven = <<1, 2, 1>>
    /\ CallExtent(1) > CallSizes[1].preferred_value
    /\ CallExtent(2) = 0
    /\ CallExtent(3) > CallSizes[3].preferred_value

----------------------------------------------------------------------------
(* Properties of the two orientations *)

OtherOrientation(O) == IF O = "Horizontal" THEN "Vertical" ELSE "Horizontal"

TransposePoint(p) == Point(p.y, p.x)
TransposeSize(sz) == Size(sz.height, sz.width)
TransposeRect(r) == Rectangle(TransposePoint(r.top_left), TransposeSize(r.size))
TransposeElement(l) == Element(ComponentSize(l.size.height, l.size.width))

\* C30: a layout of one orientation drawn into R gives every slot the
\* transpose of the rectangle that the layout of the other orientation with
\* the same weights and the transposed child sizes gives it when drawn into
\* the transposed R; create_size, create_point and create_component_size
\* invert split_size, split_point and split_component_size.
C30_TransposedEngine ==
    CallDrawn =>
        LET transposed ==
                LayoutableLinearLayout_places(
                    OtherOrientation(CallO),
                    LayoutOf([i \in 1..CallSlots |->
                                 TransposeElement(CallElementsGiven[i])],
                             CallWeightsGiven),
                    TransposeRect(fn_call.position))
        IN  /\ Len(fn_result) = CallSlots
            /\ Len(transposed) = CallSlots
            /\ \A i \in 1..CallSlots : fn_result[i] = TransposeRect(transposed[i])
            /\ \A i \in 1..CallSlots :
                  /\ LET parts == split_size(CallO, fn_result[i].size)
                     IN  create_size(CallO, parts[1], parts[2]) = fn_result[i].size
                  /\ LET parts == split_point(CallO, fn_result[i].top_left)
                     IN  create_point(CallO, parts[1], parts[2]) = fn_result[i].top_left
                  /\ LET parts == split_component_size(CallO, CallElementsGiven[i].size)
                     IN  create_component_size(CallO, parts[1], parts[2]) =
                             CallElementsGiven[i].size

\* a vertical layout of two slots that were both shrunk, below one another
C30_Witness ==
    /\ CallDrawn
    /\ CallO = "Vertical"
    /\ CallSlots = 2
    /\ CallExtent(1) = 2
    /\ CallExtent(2) = 1
    /\ fn_result[1].top_left = Point(-3, 5)
    /\ fn_result[2].top_left = Point(-3, 7)
    /\ fn_result[2].size = Size(4, 1)

----------------------------------------------------------------------------
(* Properties of the budget of the two loops *)

\* an iteration of the for loop of either loop
ForStep == pc \in {"shrink_for", "grow_for"} /\ k' = k + 1

\* the amount an iteration applied to its slot
Applied == Abs(SumTo(result_sizes', NSlots) - SumResolved)

\* C25: every iteration of a pass reduces the outstanding budget by exactly
\* the amount it applied to its slot, min(share, extent - minimum) when
\* shrinking and min(share, maximum - extent) when growing, so that what a
\* slot could not absorb stays in the budget for the next pass.
C25_BudgetReducedByApplied ==
    [][ForStep => remaining_budget - remaining_budget' = Applied]_vars

WellFormed(range) ==
    /\ range.min_value <= range.preferred_value
    /\ range.preferred_value <= range.max_value

\* C26: a slot whose range has min <= preferred <= max has its extent in
\* [min, max] from the moment the extents are set; at every step of the shrink
\* loop the extent lies in [min, preferred], at every step of the grow loop in
\* [preferred, max].
C26_ExtentsStayInRange ==
    InCall =>
        \A i \in 1..NSlots :
            WellFormed(SlotRange(i)) =>
                /\ SlotRange(i).min_value <= result_sizes[i]
                /\ result_sizes[i] <= SlotRange(i).max_value
                /\ pc \in {"shrink_pass", "shrink_for"} =>
                      result_sizes[i] <= SlotRange(i).preferred_value
                /\ pc \in {"grow_pass", "grow_for"} =>
                      SlotRange(i).preferred_value <= result_sizes[i]

\* the end of a shrink pass in which the first slot was offered more than it
\* could give and stopped at its positive minimum, and the second slot shrank
C26_Witness ==
    /\ pc = "shrink_for"
    /\ NSlots = 2
    /\ k > Len(entries_with_headroom)
    /\ SlotRange(1).min_value > 0
    /\ result_sizes[1] = SlotRange(1).min_value
    /\ TheoreticalShare(remaining_budget_before, SlotWeight(1),
                        SlotWeight(1) + SlotWeight(2))
          > SlotRange(1).preferred_value - SlotRange(1).min_value
    /\ result_sizes[2] < SlotRange(2).preferred_value
    /\ result_sizes[2] > SlotRange(2).min_value

----------------------------------------------------------------------------
(* The scenario of three slots *)

InScenario ==
    /\ CallDrawn
    /\ CallO = "Horizontal"
    /\ CallWeightsGiven = <<1, 1, 1>>
    /\ CallSizes = <<ValueRange(10, 5, 100), ValueRange(20, 5, 100),
                     ValueRange(10, 5, 100)>>
    /\ CallTarget = 30

\* C22: three horizontal slots of preferred widths 10/20/10, weights 1/1/1,
\* minimums 5 and maximums 100, drawn into a width of 30: the shrink budget is
\* 10, every slot shrinks by 3 or by 4, and the resolved widths sum to exactly
\* 30.
C22_ScenarioSumsToThirty ==
    InScenario =>
        /\ CallBudget = 10
        /\ CallTarget < CallSumPreferred
        /\ \A i \in 1..3 :
              /\ CallExtent(i) <= CallSizes[i].preferred_value
              /\ CallChange(i) \in {3, 4}
              /\ fn_result[i].size.width = CallExtent(i)
        /\ CallExtent(1) + CallExtent(2) + CallExtent(3) = 30

\* the scenario, resolved: the widths 7, 17 and 6, end to end
C22_Witness ==
    /\ InScenario
    /\ Len(fn_result) = 3
    /\ CallExtent(1) = 7
    /\ CallExtent(2) = 17
    /\ CallExtent(3) = 6
    /\ fn_result[2].top_left.x = fn_result[1].top_left.x + 7
    /\ fn_result[3].top_left.x = fn_result[2].top_left.x + 17

----------------------------------------------------------------------------
(* Properties of the decorators as borders *)

\* whether the point q lies in the rectangle r
Rectangle_contains(r, q) ==
    /\ r.top_left.x <= q.x
    /\ q.x < r.top_left.x + r.size.width
    /\ r.top_left.y <= q.y
    /\ q.y < r.top_left.y + r.size.height

\* the rectangle a bordered element hands to its child for the drawn rectangle
DcInset == Bordered_inner_position(Bordered(None, dc_decorator), dc_position)

DcHoldsBorder ==
    /\ dc_pc = "drawn"
    /\ dc_position.size.width >= 2 * Decorator_width(dc_decorator)
    /\ dc_position.size.height >= 2 * Decorator_width(dc_decorator)

\* C28: when the outer rectangle is at least twice the decorator's width wide
\* and high, every pixel that DashedLine or RoundedLine paints lies inside the
\* outer rectangle and outside the inset rectangle handed to the child.
C28_BorderStaysInItsBand ==
    DcHoldsBorder =>
        \A q \in DcPixels :
            /\ Rectangle_contains(dc_position, q)
            /\ ~Rectangle_contains(DcInset, q)

\* a rounded line around a child that is left a rectangle of 2 by 1 pixels,
\* with its four corner pixels painted
C28_Witness ==
    /\ DcHoldsBorder
    /\ dc_decorator = RoundedLine
    /\ dc_position.size = Size(6, 5)
    /\ DcInset = Rectangle(Point(DcSx + 2, DcSy + 2), Size(2, 1))
    /\ {Point(DcSx + 1, DcSy + 1), Point(DcEx - 1, DcSy + 1),
        Point(DcSx + 1, DcEy - 1), Point(DcEx - 1, DcEy - 1)} \subseteq DcPixels

----------------------------------------------------------------------------
(* Properties of the sizes of the wrappers *)

WellFormedSize(size) == WellFormed(size.width) /\ WellFormed(size.height)

WrapBuilt == fn_call.name = "wrapped"

\* C29: a linear layout, a bordered, a padded (also by negative offsets), an
\* expanded, an aligned and an observed element whose children report ranges
\* with min <= preferred <= max on both axes report such ranges themselves.
C29_WrappersKeepWellFormed ==
    WrapBuilt => (WellFormedSize(fn_call.child) => WellFormedSize(fn_result))

\* an element expanded to the right and then padded by a negative total: its
\* minimum width stopped at 0 and its maximum came off u32::MAX
C29_Witness ==
    /\ WrapBuilt
    /\ fn_call.wrapper = "padding"
    /\ fn_call.depth = 2
    /\ fn_call.child.width = ValueRange(2, 1, U32_MAX)
    /\ fn_result.width.min_value = 0
    /\ fn_result.width.preferred_value = 0
    /\ fn_result.width.max_value < U32_MAX
    /\ fn_result.height = ValueRange(5, 2, 5)

====
